---- MODULE Spec2Model ----
(***************************************************************************)
(* SearchExecutor (backend/airweave/search/executor.py): the dependency    *)
(* driven operator pipeline of one search request, its event emitter, its  *)
(* finalization and its analytics hook.                                    *)
(*                                                                         *)
(* One behaviour of the model is one call of SearchExecutor.execute.  The  *)
(* call is cut into steps at its suspension points (every await).          *)
(***************************************************************************)
EXTENDS Integers, Sequences, FiniteSets, TLC

(***************************************************************************)
(* Bounds of the model.                                                    *)
(***************************************************************************)
\* publishes of one run that the pubsub layer may fail
MaxPublishFailures == 1
\* emit calls the operators of one run make themselves
MaxOpEmits == 1

(***************************************************************************)
(* Values.                                                                 *)
(***************************************************************************)
\* Python's None (request_id, op_name, op_seq)
None == "None"

\* a config slot holding None instead of an operator
NoneOp == [name |-> None, depends_on |-> {}]

\* the operator slots of SearchConfig, in the planner's logical order
Slots ==
  << "query_expansion", "query_interpretation", "qdrant_filter", "embedding",
     "vector_search", "recency", "reranking", "completion" >>

SlotNames == {Slots[i] : i \in 1..Len(Slots)}

RequiredSlots == {"embedding", "vector_search"}

\* values of a context key: the key is absent, holds None, or holds a list
Absent == [kind |-> "absent", items |-> <<>>]
Null == [kind |-> "null", items |-> <<>>]
List(items) == [kind |-> "list", items |-> items]

\* Python truthiness of a context value read with context.get(key)
Truthy(v) == v.kind = "list" /\ v.items # <<>>

(***************************************************************************)
(* Inputs of one call.                                                     *)
(***************************************************************************)
\* depends_on declarations of the operators that fill the slots
NoDeps == [s \in SlotNames |-> {}]

DeclaredDeps ==
  [s \in SlotNames |->
     CASE s = "query_expansion" -> {}
       [] s = "query_interpretation" -> {"query_expansion"}
       [] s = "qdrant_filter" -> {"query_interpretation", "query_expansion"}
       [] s = "embedding" -> {"query_expansion"}
       [] s = "vector_search" -> {"embedding", "qdrant_filter"}
       [] s = "recency" -> {"vector_search"}
       [] s = "reranking" -> {"vector_search", "qdrant_filter"}
       [] s = "completion" -> {"reranking", "vector_search"}]

\* every operator waits for the slot after it: later placed operators run first
ReverseDeps ==
  [s \in SlotNames |->
     {Slots[i + 1] : i \in {j \in 1..(Len(Slots) - 1) : Slots[j] = s}}]

\* embedding and vector_search wait for each other
CyclicDeps ==
  [DeclaredDeps EXCEPT !["embedding"] = {"vector_search"},
                       !["vector_search"] = {"embedding"}]

\* vector_search waits for itself
SelfDeps == [NoDeps EXCEPT !["vector_search"] = {"vector_search"}]

DependsOnChoices == {NoDeps, DeclaredDeps, ReverseDeps, CyclicDeps, SelfDeps}

\* the populated slots of the configs that are run: the required slots alone
\* or with one optional slot, and a config whose embedding slot is None
PopulatedChoices ==
  {RequiredSlots, RequiredSlots \cup {"query_expansion"},
   RequiredSlots \cup {"reranking"}, {"vector_search"}}

\* the query text, as its sequence of characters
QueryChoices == {<<"h", "i">>}

\* the request context (ApiContext): user and organization
CtxChoices == {[user |-> "u1", organization |-> [id |-> "org1", name |-> "acme"]]}

\* SearchConfig with the operators of `deps` in the slots of `populated`
MakeConfig(query, populated, deps) ==
  [s \in SlotNames |->
     IF s \in populated THEN [name |-> s, depends_on |-> deps[s]] ELSE NoneOp]
    @@ [query |-> query, limit |-> 10, offset |-> 0, collection_slug |-> "docs"]

\* data the operator `name` passes to emit: vector_search reports under a key
\* of the frame, the other operators under a key of their own
OpDataChoices(name) ==
  IF name = "vector_search" THEN {[seq |-> 1]} ELSE {[note |-> "x"]}

RequestIdChoices == {None, "r1"}

\* what an operator's execute raises when it fails
ErrorChoices == {"boom"}

\* what the operator of a slot may write into the shared context
RawWrites(name) ==
  IF name = "vector_search"
    THEN {Absent, Null, List(<<1, 2>>)}
    ELSE {Absent}

FinalWrites(name) ==
  IF name = "reranking" THEN {Absent, Null, List(<<2>>)} ELSE {Absent}

\* milliseconds the execute step of an operator is measured to take
ElapsedMs(name) == CHOOSE i \in 1..Len(Slots) : Slots[i] = name

VARIABLES
  config,           \* SearchConfig: slot -> operator or NoneOp
  ctx,              \* ApiContext of the caller
  request_id,       \* the request_id argument
  pc,               \* where execute is
  operations,       \* the plan
  context,          \* the execution context
  executed,         \* names of the operators that completed
  ready,            \* rest of the ready batch being run
  op,               \* operator being run by the for loop
  pending,          \* exception unwinding out of execute, or None
  cancelled,        \* the caller has cancelled the call
  global_sequence,  \* emitter: global counter
  op_sequences,     \* emitter: per operator counters
  inflight,         \* payloads of operator tasks between counter and publish
  channel,          \* messages published on search:<request_id>
  emitted,          \* history: payloads in the order the emitter numbered them
  emitCalls,        \* history: number of emit calls
  pubFailures,      \* history: number of failed publishes
  opEmits,          \* history: number of emit calls made by operators
  execLog,          \* history: operators started, with executed at that time
  wrote,            \* history: what the operators stored in the context
  iterations,       \* history: number of scheduler loop iterations
  warnings,         \* logger: warnings
  analyticsLog,     \* analytics: the events handed to track_event
  sink              \* analytics sink: the events it stored

vars ==
  << config, ctx, request_id, pc, operations, context, executed, ready, op, pending,
     cancelled, global_sequence, op_sequences, inflight, channel, emitted, emitCalls,
     pubFailures, opEmits, execLog, wrote, iterations, warnings, analyticsLog,
     sink >>

emitterVars == <<global_sequence, op_sequences, channel, emitted, emitCalls, pubFailures>>

(***************************************************************************)
(* Pure functions of the executor.                                         *)
(***************************************************************************)
\* `if config.<slot>:` of the planner
Populated(c, slot) == c[slot] # NoneOp

\* SearchExecutor._extract_operations_from_config: the optional slots that are
\* populated and the two required slots as they are, in logical order
RECURSIVE ExtractFrom(_, _)
ExtractFrom(c, i) ==
  IF i > Len(Slots) THEN <<>>
  ELSE IF Slots[i] \in RequiredSlots \/ Populated(c, Slots[i])
    THEN <<c[Slots[i]]>> \o ExtractFrom(c, i + 1)
    ELSE ExtractFrom(c, i + 1)

\* the planner with interpretation placed before expansion
ExtractInterpretationFirst(c) ==
  LET ops == ExtractFrom(c, 1)
  IN IF Populated(c, "query_expansion") /\ Populated(c, "query_interpretation")
       THEN <<ops[2], ops[1]>> \o SubSeq(ops, 3, Len(ops))
       ELSE ops

_extract_operations_from_config(c) == ExtractFrom(c, 1)

\* _operation_exists answering True for every name: a missing dependency blocks
OperationAlwaysExists(ops, name) == TRUE

\* SearchExecutor._operation_exists
_operation_exists(ops, name) == \E i \in 1..Len(ops) : ops[i].name = name

\* the test of _find_ready_operations without the dependency check
IsReadyWithoutDependencies(ops, done, o) == o.name \notin done

\* the test with a dependency that is not in the plan waited for too
IsReadyAllDependenciesDone(ops, done, o) ==
  /\ o.name \notin done
  /\ o.depends_on \subseteq done

\* the test without the look into the executed set
IsReadyAgain(ops, done, o) ==
  \A dep \in o.depends_on : dep \in done \/ ~_operation_exists(ops, dep)

\* the test of _find_ready_operations on one operator of the plan
IsReady(ops, done, o) ==
  /\ o.name \notin done
  /\ \A dep \in o.depends_on : dep \in done \/ ~_operation_exists(ops, dep)

\* _find_ready_operations collecting the ready operators last to first
FindReadyReversed(ops, done) ==
  LET r == SelectSeq(ops, LAMBDA o : IsReady(ops, done, o))
  IN [k \in 1..Len(r) |-> r[Len(r) + 1 - k]]

\* SearchExecutor._find_ready_operations
_find_ready_operations(ops, done) ==
  SelectSeq(ops, LAMBDA o : IsReady(ops, done, o))

\* the names of a plan
PlanNames(ops) == {ops[i].name : i \in 1..Len(ops)}

\* SearchExecutor._initialize_context, with the request id attached
NoSummary ==
  [present |-> FALSE, operations_executed |-> 0, total_time_ms |-> 0,
   errors_count |-> 0]

_initialize_context(c, rid) ==
  [query |-> c.query,
   timings |-> <<>>,
   errors |-> <<>>,
   raw_results |-> Absent,
   final_results |-> Absent,
   execution_summary |-> NoSummary,
   request_id |-> rid,
   streaming_required |-> (rid # None)]

\* sum(timings.values())
RECURSIVE SumValues(_)
SumValues(f) ==
  IF DOMAIN f = {} THEN 0
  ELSE LET k == CHOOSE x \in DOMAIN f : TRUE
       IN f[k] + SumValues([x \in DOMAIN f \ {k} |-> f[x]])

\* context.get("raw_results", [])
GetOrEmpty(v) == IF v = Absent THEN List(<<>>) ELSE v

\* _finalize_context without the final_results fallback
FinalizeSummaryOnly(cx) ==
  [cx EXCEPT
     !.execution_summary =
        [present |-> TRUE,
         operations_executed |-> Cardinality(DOMAIN cx.timings),
         total_time_ms |-> SumValues(cx.timings),
         errors_count |-> Len(cx.errors)]]

\* _finalize_context that takes final_results from raw_results every time
FinalizeAlwaysFromRaw(cx) ==
  [cx EXCEPT
     !.final_results = GetOrEmpty(cx.raw_results),
     !.execution_summary =
        [present |-> TRUE,
         operations_executed |-> Cardinality(DOMAIN cx.timings),
         total_time_ms |-> SumValues(cx.timings),
         errors_count |-> Len(cx.errors)]]

\* _finalize_context with the two counts taken from each other's source
FinalizeCountsSwapped(cx) ==
  [cx EXCEPT
     !.final_results =
        IF cx.final_results = Absent THEN GetOrEmpty(cx.raw_results)
        ELSE cx.final_results,
     !.execution_summary =
        [present |-> TRUE,
         operations_executed |-> Len(cx.errors),
         total_time_ms |-> SumValues(cx.timings),
         errors_count |-> Cardinality(DOMAIN cx.timings)]]

\* SearchExecutor._finalize_context
_finalize_context(cx) ==
  [cx EXCEPT
     !.final_results =
        IF cx.final_results = Absent THEN GetOrEmpty(cx.raw_results)
        ELSE cx.final_results,
     !.execution_summary =
        [present |-> TRUE,
         operations_executed |-> Cardinality(DOMAIN cx.timings),
         total_time_ms |-> SumValues(cx.timings),
         errors_count |-> Len(cx.errors)]]

(***************************************************************************)
(* The emitter.                                                            *)
(***************************************************************************)
\* the payload of emit: the frame, then **data, whose keys win
Payload(event_type, seq, op_name, op_seq_val, data) ==
  data @@ [type |-> event_type, seq |-> seq, op |-> op_name, op_seq |-> op_seq_val]

\* emit with the global counter left as it is
NumberStuck(op_name) ==
  /\ global_sequence' = global_sequence
  /\ op_sequences' =
       IF op_name = None THEN op_sequences
       ELSE [op_sequences EXCEPT ![op_name] = @ + 1]

\* emit with one op counter shared by all operators
NumberSharedOpCounter(op_name) ==
  /\ global_sequence' = global_sequence + 1
  /\ op_sequences' =
       IF op_name = None THEN op_sequences
       ELSE [o \in DOMAIN op_sequences |-> op_sequences[o] + 1]

\* the counters step of emit, taken under emit_lock
Number(op_name) ==
  /\ global_sequence' = global_sequence + 1
  /\ op_sequences' =
       IF op_name = None THEN op_sequences
       ELSE [op_sequences EXCEPT ![op_name] = @ + 1]

\* the payload emit builds from the counters it has just taken; op_seq is 0
\* for Python's None
Numbered(event_type, data, op_name) ==
  Payload(event_type, global_sequence', op_name,
          IF op_name = None THEN 0 ELSE op_sequences'[op_name], data)

\* core_pubsub.publish and the except around it: the message reaches the
\* channel, or the publish raises and emit swallows the failure
Publish(payload) ==
  \/ /\ channel' = Append(channel, payload)
     /\ UNCHANGED pubFailures
  \/ /\ pubFailures < MaxPublishFailures
     /\ pubFailures' = pubFailures + 1
     /\ UNCHANGED channel

\* emit without the `if not request_id: return`
emitWithoutRequestId(event_type, data, op_name) ==
  /\ emitCalls' = emitCalls + 1
  /\ Number(op_name)
  /\ emitted' = Append(emitted, Numbered(event_type, data, op_name))
  /\ Publish(Numbered(event_type, data, op_name))

\* emit(event_type, data, op_name) awaited by the executor itself
emit(event_type, data, op_name) ==
  /\ emitCalls' = emitCalls + 1
  /\ IF request_id = None
       THEN UNCHANGED <<global_sequence, op_sequences, channel, emitted, pubFailures>>
       ELSE /\ Number(op_name)
            /\ emitted' = Append(emitted, Numbered(event_type, data, op_name))
            /\ Publish(Numbered(event_type, data, op_name))

\* asyncio.CancelledError, a BaseException: `except Exception` lets it pass
CancelledError == "CancelledError"

\* the caller cancels the call while emit is suspended in the publish: the
\* counters are taken, the message may have reached the channel or not, and
\* CancelledError leaves emit. Without a request_id emit never suspends.
emitCancelled(event_type, data, op_name) ==
  /\ request_id # None
  /\ ~cancelled
  /\ cancelled' = TRUE
  /\ emitCalls' = emitCalls + 1
  /\ Number(op_name)
  /\ emitted' = Append(emitted, Numbered(event_type, data, op_name))
  /\ \/ channel' = Append(channel, Numbered(event_type, data, op_name))
     \/ UNCHANGED channel
  /\ UNCHANGED pubFailures

(***************************************************************************)
(* execute, step by step.                                                  *)
(***************************************************************************)
Init ==
  /\ \E q \in QueryChoices, populated \in PopulatedChoices, deps \in DependsOnChoices :
       config = MakeConfig(q, populated, deps)
  /\ ctx \in CtxChoices
  /\ request_id \in RequestIdChoices
  /\ pc = "entry"
  /\ operations = <<>>
  /\ context = _initialize_context(config, None)
  /\ executed = {}
  /\ ready = <<>>
  /\ op = NoneOp
  /\ pending = None
  /\ cancelled = FALSE
  /\ global_sequence = 0
  /\ op_sequences = [s \in SlotNames |-> 0]
  /\ inflight = {}
  /\ channel = <<>>
  /\ emitted = <<>>
  /\ emitCalls = 0
  /\ pubFailures = 0
  /\ opEmits = 0
  /\ execLog = <<>>
  /\ wrote = {}
  /\ iterations = 0
  /\ warnings = <<>>
  /\ analyticsLog = <<>>
  /\ sink = <<>>

\* the plan, the context, the emitter and the start event; the start event is
\* emitted before the try block, so a cancellation there skips the finally
Enter ==
  /\ pc = "entry"
  /\ operations' = _extract_operations_from_config(config)
  /\ context' = _initialize_context(config, request_id)
  /\ executed' = {}
  /\ LET data ==
           [request_id |-> request_id, query |-> config.query,
            limit |-> config.limit, offset |-> config.offset]
     IN \/ /\ emit("start", data, None)
           /\ pc' = "loop"
           /\ UNCHANGED <<pending, cancelled>>
        \/ /\ emitCancelled("start", data, None)
           /\ pending' = CancelledError
           /\ pc' = "raised"
  /\ UNCHANGED <<config, ctx, request_id, wrote, ready, op, inflight, opEmits,
                 execLog, iterations, warnings, analyticsLog, sink>>

\* the while condition off by one: the loop is left before the last operator
LoopOffByOne(ops, done) == Cardinality(done) < Len(ops) - 1

\* `while len(executed) < len(operations)`
LoopContinues(ops, done) == Cardinality(done) < Len(ops)

\* the names the warning of an empty ready list carries
Remaining(ops, done) == SelectSeq(ops, LAMBDA o : o.name \notin done)

\* the while loop without the break on an empty ready list
LoopCheckWithoutBreak ==
  /\ pc = "loop"
  /\ IF ~LoopContinues(operations, executed)
       THEN /\ pc' = "finalize"
            /\ UNCHANGED <<ready, iterations>>
       ELSE /\ iterations' = iterations + 1
            /\ ready' = _find_ready_operations(operations, executed)
            /\ pc' = IF ready' = <<>> THEN "loop" ELSE "for"
  /\ UNCHANGED <<config, ctx, request_id, wrote, operations, context, executed, op,
                 pending, warnings, cancelled, inflight, opEmits, execLog,
                 analyticsLog, sink>>
  /\ UNCHANGED emitterVars

\* the while loop raising when nothing is ready instead of leaving the loop
LoopCheckRaisesOnDeadlock ==
  /\ pc = "loop"
  /\ IF ~LoopContinues(operations, executed)
       THEN /\ pc' = "finalize"
            /\ UNCHANGED <<ready, pending, iterations, warnings>>
       ELSE /\ iterations' = iterations + 1
            /\ IF \E i \in 1..Len(operations) : operations[i] = NoneOp
                 THEN /\ pending' = "AttributeError"
                      /\ pc' = "finally"
                      /\ UNCHANGED <<ready, warnings>>
                 ELSE LET r == _find_ready_operations(operations, executed)
                      IN IF r = <<>>
                           THEN /\ warnings' =
                                     Append(warnings, Remaining(operations, executed))
                                /\ pending' = "RuntimeError"
                                /\ pc' = "finally"
                                /\ UNCHANGED ready
                           ELSE /\ ready' = r
                                /\ pc' = "for"
                                /\ UNCHANGED <<pending, warnings>>
  /\ UNCHANGED <<config, ctx, request_id, wrote, operations, context, executed, op,
                 cancelled, inflight, opEmits, execLog, analyticsLog, sink>>
  /\ UNCHANGED emitterVars

\* one test of the while condition and, when it holds, the ready list: the
\* loop is left when nothing is ready; a None in the plan has no name and
\* _find_ready_operations raises AttributeError
LoopCheck ==
  /\ pc = "loop"
  /\ IF ~LoopContinues(operations, executed)
       THEN /\ pc' = "finalize"
            /\ UNCHANGED <<ready, pending, iterations, warnings>>
       ELSE /\ iterations' = iterations + 1
            /\ IF \E i \in 1..Len(operations) : operations[i] = NoneOp
                 THEN /\ pending' = "AttributeError"
                      /\ pc' = "finally"
                      /\ UNCHANGED <<ready, warnings>>
                 ELSE LET r == _find_ready_operations(operations, executed)
                      IN IF r = <<>>
                           THEN /\ warnings' =
                                     Append(warnings, Remaining(operations, executed))
                                /\ pc' = "finalize"
                                /\ UNCHANGED <<ready, pending>>
                           ELSE /\ ready' = r
                                /\ pc' = "for"
                                /\ UNCHANGED <<pending, warnings>>
  /\ UNCHANGED <<config, ctx, request_id, wrote, operations, context, executed, op,
                 cancelled, inflight, opEmits, execLog, analyticsLog, sink>>
  /\ UNCHANGED emitterVars

\* the for loop with an emit that lets the failure of the publish out: the
\* except clause takes it for a failure of the operator
ForNextPublishRaises ==
  /\ pc = "for"
  /\ ready # <<>>
  /\ op' = Head(ready)
  /\ ready' = Tail(ready)
  /\ emit("operator_start", [name |-> Head(ready).name], Head(ready).name)
  /\ execLog' = execLog
  /\ IF pubFailures' # pubFailures
       THEN pc' = "except" /\ pending' = "PublishError"
       ELSE pc' = "execute" /\ pending' = pending
  /\ UNCHANGED <<config, ctx, request_id, wrote, operations, context, executed,
                 cancelled, inflight, opEmits, iterations, warnings, analyticsLog, sink>>

\* the for loop starting op.execute as a task it does not wait for
ForNextNotAwaited ==
  /\ pc = "for"
  /\ ready # <<>>
  /\ op' = Head(ready)
  /\ ready' = Tail(ready)
  /\ emit("operator_start", [name |-> Head(ready).name], Head(ready).name)
  /\ execLog' =
       Append(execLog, [name |-> Head(ready).name, executed |-> executed,
                        iteration |-> iterations])
  /\ pc' = IF Tail(ready) = <<>> THEN "execute" ELSE "for"
  /\ UNCHANGED <<config, ctx, request_id, wrote, operations, context, executed,
                 pending, cancelled, inflight, opEmits, iterations, warnings,
                 analyticsLog, sink>>

\* `for op in ready`: operator_start, then op.execute is entered
ForNext ==
  /\ pc = "for"
  /\ ready # <<>>
  /\ op' = Head(ready)
  /\ ready' = Tail(ready)
  /\ \/ /\ emit("operator_start", [name |-> Head(ready).name], Head(ready).name)
        /\ execLog' =
             Append(execLog, [name |-> Head(ready).name, executed |-> executed,
                              iteration |-> iterations])
        /\ pc' = "execute"
        /\ UNCHANGED <<pending, cancelled>>
     \/ /\ emitCancelled("operator_start", [name |-> Head(ready).name],
                          Head(ready).name)
        /\ pending' = CancelledError
        /\ pc' = "finally"
        /\ UNCHANGED execLog
  /\ UNCHANGED <<config, ctx, request_id, wrote, operations, context, executed,
                 inflight, opEmits, iterations, warnings, analyticsLog, sink>>

\* a task of the running operator calls context["emit"]: the counters step
OpEmit ==
  /\ pc = "execute"
  /\ opEmits < MaxOpEmits
  /\ opEmits' = opEmits + 1
  /\ emitCalls' = emitCalls + 1
  /\ IF request_id = None
       THEN UNCHANGED <<global_sequence, op_sequences, emitted, inflight>>
       ELSE \E data \in OpDataChoices(op.name) :
              /\ Number(op.name)
              /\ emitted' = Append(emitted, Numbered("progress", data, op.name))
              /\ inflight' = inflight \cup {Numbered("progress", data, op.name)}
  /\ UNCHANGED <<config, ctx, request_id, wrote, pc, operations, context, executed, ready,
                 op, pending, cancelled, channel, pubFailures, execLog, iterations,
                 warnings, analyticsLog, sink>>

\* the publish of an operator task's emit completes
OpPublish ==
  /\ pc = "execute"
  /\ \E payload \in inflight :
       /\ inflight' = inflight \ {payload}
       /\ Publish(payload)
  /\ UNCHANGED <<config, ctx, request_id, wrote, pc, operations, context, executed, ready,
                 op, pending, cancelled, global_sequence, op_sequences, emitted,
                 emitCalls, opEmits, execLog, iterations, warnings, analyticsLog, sink>>

\* the context after the operator `name` wrote raw and fin and was timed
Completed(cx, name, raw, fin) ==
  [cx EXCEPT
     !.raw_results = IF raw = Absent THEN @ ELSE raw,
     !.final_results = IF fin = Absent THEN @ ELSE fin,
     !.timings = (name :> ElapsedMs(name)) @@ @]

\* the keys an operator stored, for the history
Stored(name, raw, fin) ==
  (IF raw = Absent THEN {}
   ELSE {[op |-> name, key |-> "raw_results", value |-> raw]})
    \cup (IF fin = Absent THEN {}
          ELSE {[op |-> name, key |-> "final_results", value |-> fin]})

\* op.execute returns: timing and executed
OpReturn ==
  /\ pc = "execute"
  /\ inflight = {}
  /\ \E raw \in RawWrites(op.name), fin \in FinalWrites(op.name) :
       /\ context' = Completed(context, op.name, raw, fin)
       /\ wrote' = wrote \cup Stored(op.name, raw, fin)
  /\ executed' = executed \cup {op.name}
  /\ pc' = "op_end"
  /\ UNCHANGED <<config, ctx, request_id, operations, ready, op, pending, cancelled,
                 inflight, opEmits, execLog, iterations, warnings, analyticsLog, sink>>
  /\ UNCHANGED emitterVars

\* op.execute raises
OpRaise ==
  /\ pc = "execute"
  /\ inflight = {}
  /\ \E e \in ErrorChoices : pending' = e
  /\ pc' = "except"
  /\ UNCHANGED <<config, ctx, request_id, wrote, operations, context, executed, ready, op,
                 cancelled, inflight, opEmits, execLog, iterations, warnings,
                 analyticsLog, sink>>
  /\ UNCHANGED emitterVars

\* the caller cancels the call while op.execute is suspended: the operator and
\* its tasks are cancelled, CancelledError passes `except Exception`
OpCancelled ==
  /\ pc = "execute"
  /\ ~cancelled
  /\ cancelled' = TRUE
  /\ inflight' = {}
  /\ pending' = CancelledError
  /\ pc' = "finally"
  /\ UNCHANGED <<config, ctx, request_id, wrote, operations, context, executed, ready, op,
                 opEmits, execLog, iterations, warnings, analyticsLog, sink>>
  /\ UNCHANGED emitterVars

\* the operator_end event emitted without op_name
EmitOperatorEndUnnamed ==
  /\ pc = "op_end"
  /\ emit("operator_end", [name |-> op.name, ms |-> context.timings[op.name]], None)
  /\ pc' = IF ready = <<>> THEN "loop" ELSE "for"
  /\ UNCHANGED <<config, ctx, request_id, wrote, operations, context, executed, ready, op,
                 pending, cancelled, inflight, opEmits, execLog, iterations, warnings,
                 analyticsLog, sink>>

\* the operator_end emit letting the failure of its publish out: the run ends
\* with the publisher's error
EmitOperatorEndPublishRaises ==
  /\ pc = "op_end"
  /\ emit("operator_end", [name |-> op.name, ms |-> context.timings[op.name]], op.name)
  /\ IF pubFailures' # pubFailures
       THEN pc' = "finally" /\ pending' = "PublishError"
       ELSE pc' = (IF ready = <<>> THEN "loop" ELSE "for") /\ pending' = pending
  /\ UNCHANGED <<config, ctx, request_id, wrote, operations, context, executed, ready, op,
                 cancelled, inflight, opEmits, execLog, iterations, warnings,
                 analyticsLog, sink>>

\* the operator_end event followed by a new look for ready operators: the
\* rest of the ready list is dropped
EmitOperatorEndRescans ==
  /\ pc = "op_end"
  /\ emit("operator_end", [name |-> op.name, ms |-> context.timings[op.name]], op.name)
  /\ ready' = <<>>
  /\ pc' = "loop"
  /\ UNCHANGED <<config, ctx, request_id, wrote, operations, context, executed, op,
                 pending, cancelled, inflight, opEmits, execLog, iterations, warnings,
                 analyticsLog, sink>>

\* the operator_end event; the for loop goes on, or the while loop
EmitOperatorEnd ==
  /\ pc = "op_end"
  /\ LET data == [name |-> op.name, ms |-> context.timings[op.name]]
     IN \/ /\ emit("operator_end", data, op.name)
           /\ pc' = IF ready = <<>> THEN "loop" ELSE "for"
           /\ UNCHANGED <<pending, cancelled>>
        \/ /\ emitCancelled("operator_end", data, op.name)
           /\ pending' = CancelledError
           /\ pc' = "finally"
  /\ UNCHANGED <<config, ctx, request_id, wrote, operations, context, executed, ready, op,
                 inflight, opEmits, execLog, iterations, warnings, analyticsLog, sink>>

\* the except clause without the raise: the failed operator is skipped
HandleErrorAndGoOn ==
  /\ pc = "except"
  /\ context' =
       [context EXCEPT
          !.errors = Append(@, [operation |-> op.name, error |-> pending])]
  /\ emit("error", [operation |-> op.name, message |-> pending], op.name)
  /\ pending' = None
  /\ pc' = IF ready = <<>> THEN "loop" ELSE "for"
  /\ UNCHANGED <<config, ctx, request_id, wrote, operations, executed, ready, op,
                 cancelled, inflight, opEmits, execLog, iterations, warnings,
                 analyticsLog, sink>>

\* the except clause leaving the loop instead of raising: results and summary
\* follow the error
HandleErrorThenFinalize ==
  /\ pc = "except"
  /\ context' =
       [context EXCEPT
          !.errors = Append(@, [operation |-> op.name, error |-> pending])]
  /\ emit("error", [operation |-> op.name, message |-> pending], op.name)
  /\ pc' = "finalize"
  /\ UNCHANGED <<config, ctx, request_id, wrote, operations, executed, ready, op,
                 pending, cancelled, inflight, opEmits, execLog, iterations,
                 warnings, analyticsLog, sink>>

\* the except clause with the timing taken for the failed operator too
HandleErrorTimed ==
  /\ pc = "except"
  /\ context' =
       [context EXCEPT
          !.errors = Append(@, [operation |-> op.name, error |-> pending]),
          !.timings = (op.name :> ElapsedMs(op.name)) @@ @]
  /\ emit("error", [operation |-> op.name, message |-> pending], op.name)
  /\ pc' = "finally"
  /\ UNCHANGED <<config, ctx, request_id, wrote, operations, executed, ready, op,
                 pending, cancelled, inflight, opEmits, execLog, iterations, warnings,
                 analyticsLog, sink>>

\* the except clause without the record in errors
HandleErrorUnrecorded ==
  /\ pc = "except"
  /\ emit("error", [operation |-> op.name, message |-> pending], op.name)
  /\ pc' = "finally"
  /\ UNCHANGED <<config, ctx, request_id, wrote, operations, context, executed, ready,
                 op, pending, cancelled, inflight, opEmits, execLog, iterations,
                 warnings, analyticsLog, sink>>

\* the except clause re-raising only when streaming is required: without a
\* request id the failed operator is skipped
HandleErrorLenientWithoutStream ==
  /\ pc = "except"
  /\ context' =
       [context EXCEPT
          !.errors = Append(@, [operation |-> op.name, error |-> pending])]
  /\ emit("error", [operation |-> op.name, message |-> pending], op.name)
  /\ IF context.streaming_required
       THEN pc' = "finally" /\ pending' = pending
       ELSE pc' = (IF ready = <<>> THEN "loop" ELSE "for") /\ pending' = None
  /\ UNCHANGED <<config, ctx, request_id, wrote, operations, executed, ready, op,
                 cancelled, inflight, opEmits, execLog, iterations, warnings,
                 analyticsLog, sink>>

\* `except Exception as e`: the error is recorded and emitted, then re-raised
HandleError ==
  /\ pc = "except"
  /\ context' =
       [context EXCEPT
          !.errors = Append(@, [operation |-> op.name, error |-> pending])]
  /\ LET data == [operation |-> op.name, message |-> pending]
     IN \/ /\ emit("error", data, op.name)
           /\ UNCHANGED <<pending, cancelled>>
        \/ /\ emitCancelled("error", data, op.name)
           /\ pending' = CancelledError
  /\ pc' = "finally"
  /\ UNCHANGED <<config, ctx, request_id, wrote, operations, executed, ready, op,
                 inflight, opEmits, execLog, iterations, warnings, analyticsLog, sink>>

\* the results event built before _finalize_context has run
FinalizeAfterResults ==
  /\ pc = "finalize"
  /\ context' = _finalize_context(context)
  /\ emit("results", [results |-> GetOrEmpty(context.final_results)], None)
  /\ pc' = "summary"
  /\ UNCHANGED <<config, ctx, request_id, wrote, operations, executed, ready, op,
                 pending, cancelled, inflight, opEmits, execLog, iterations, warnings,
                 analyticsLog, sink>>

\* after the loop: _finalize_context and the results event
Finalize ==
  /\ pc = "finalize"
  /\ context' = _finalize_context(context)
  /\ LET data == [results |-> GetOrEmpty(context'.final_results)]
     IN \/ /\ emit("results", data, None)
           /\ pc' = "summary"
           /\ UNCHANGED <<pending, cancelled>>
        \/ /\ emitCancelled("results", data, None)
           /\ pending' = CancelledError
           /\ pc' = "finally"
  /\ UNCHANGED <<config, ctx, request_id, wrote, operations, executed, ready, op,
                 inflight, opEmits, execLog, iterations, warnings, analyticsLog, sink>>

\* the summary event
EmitSummary ==
  /\ pc = "summary"
  /\ LET data ==
           [timings |-> context.timings, errors |-> context.errors,
            total_time_ms |-> SumValues(context.timings)]
     IN \/ /\ emit("summary", data, None)
           /\ UNCHANGED <<pending, cancelled>>
        \/ /\ emitCancelled("summary", data, None)
           /\ pending' = CancelledError
  /\ pc' = "finally"
  /\ UNCHANGED <<config, ctx, request_id, wrote, operations, context, executed, ready, op,
                 inflight, opEmits, execLog, iterations, warnings, analyticsLog, sink>>

\* the properties of the search_query event
Properties(cx, rid, c) ==
  (IF Truthy(cx.final_results)
     THEN [results_count |-> Len(cx.final_results.items)]
     ELSE <<>>)
    @@ [query_length |-> Len(cx.query),
        collection_slug |-> "",
        search_type |-> IF rid # None THEN "streaming" ELSE "regular",
        organization_name |-> c.organization.name,
        status |-> "success"]

\* the search_query event of the finally block
SearchQueryEvent ==
  [event_name |-> "search_query",
   distinct_id |->
     IF ctx.user # None THEN ctx.user ELSE <<"api_key_", ctx.organization.id>>,
   properties |-> Properties(context, request_id, ctx),
   groups |-> [organization |-> ctx.organization.id]]

\* analytics.track_event when the sink stores the event
track_event(event) ==
  /\ analyticsLog' = Append(analyticsLog, event)
  /\ sink' = Append(sink, event)

\* analytics.track_event when the sink fails: track_event drops the failure
track_event_dropped(event) ==
  /\ analyticsLog' = Append(analyticsLog, event)
  /\ UNCHANGED sink

\* track_event after the try block instead of in its finally
TrackAnalyticsOnSuccess ==
  /\ pc = "finally"
  /\ IF pending # None THEN UNCHANGED <<analyticsLog, sink>>
     ELSE track_event(SearchQueryEvent)
  /\ pc' = "emit_done"
  /\ UNCHANGED <<config, ctx, request_id, wrote, operations, context, executed,
                 ready, op, pending, cancelled, inflight, opEmits, execLog,
                 iterations, warnings>>
  /\ UNCHANGED emitterVars

\* finally with a track_event that lets the failure of the sink out: the
\* exception leaves the finally block before done
TrackAnalyticsSinkRaises ==
  /\ pc = "finally"
  /\ track_event_dropped(SearchQueryEvent)
  /\ pc' = "raised"
  /\ pending' = "SinkError"
  /\ UNCHANGED <<config, ctx, request_id, wrote, operations, context, executed, ready, op,
                 cancelled, inflight, opEmits, execLog, iterations, warnings>>
  /\ UNCHANGED emitterVars

\* finally: analytics.track_event, the analytics sink failing
TrackAnalyticsSinkFails ==
  /\ pc = "finally"
  /\ track_event_dropped(SearchQueryEvent)
  /\ pc' = "emit_done"
  /\ UNCHANGED <<config, ctx, request_id, wrote, operations, context, executed, ready, op,
                 pending, cancelled, inflight, opEmits, execLog, iterations,
                 warnings>>
  /\ UNCHANGED emitterVars

\* finally with the done event first and the analytics event after it
TrackAnalyticsAfterDone ==
  /\ pc = "finally"
  /\ emit("done", [request_id |-> request_id], None)
  /\ track_event(SearchQueryEvent)
  /\ pc' = IF pending = None THEN "returned" ELSE "raised"
  /\ UNCHANGED <<config, ctx, request_id, wrote, operations, context, executed, ready, op,
                 pending, cancelled, inflight, opEmits, execLog, iterations,
                 warnings>>

\* finally: analytics.track_event
TrackAnalytics ==
  /\ pc = "finally"
  /\ track_event(SearchQueryEvent)
  /\ pc' = "emit_done"
  /\ UNCHANGED <<config, ctx, request_id, wrote, operations, context, executed, ready, op,
                 pending, cancelled, inflight, opEmits, execLog, iterations,
                 warnings>>
  /\ UNCHANGED emitterVars

\* finally: the done event; execute returns the context or the exception
\* goes on to the caller
EmitDone ==
  /\ pc = "emit_done"
  /\ \/ /\ emit("done", [request_id |-> request_id], None)
        /\ pc' = IF pending = None THEN "returned" ELSE "raised"
        /\ UNCHANGED <<pending, cancelled>>
     \/ /\ emitCancelled("done", [request_id |-> request_id], None)
        /\ pending' = CancelledError
        /\ pc' = "raised"
  /\ UNCHANGED <<config, ctx, request_id, wrote, operations, context, executed, ready, op,
                 inflight, opEmits, execLog, iterations, warnings, analyticsLog, sink>>

Next ==
  \/ Enter
  \/ LoopCheck
  \/ ForNext
  \/ OpEmit
  \/ OpPublish
  \/ OpReturn
  \/ OpRaise
  \/ OpCancelled
  \/ EmitOperatorEnd
  \/ HandleError
  \/ Finalize
  \/ EmitSummary
  \/ TrackAnalytics
  \/ EmitDone

Spec == Init /\ [][Next]_vars

\* execute has ended
Ended == pc \in {"returned", "raised"}

(***************************************************************************)
(* _find_ready_operations on its own: every plan of a few operators, every *)
(* set of executed names.                                                  *)
(***************************************************************************)
\* operators of a plan at most
MaxPlanLen == 2

\* names of the operators of these plans, and of their dependencies
SchedNames == {"a", "b", "c"}

SchedOperators == [name : SchedNames, depends_on : SUBSET SchedNames]

RECURSIVE PlansOfLen(_)
PlansOfLen(n) ==
  IF n = 0 THEN {<<>>}
  ELSE {Append(plan, o) : plan \in PlansOfLen(n - 1), o \in SchedOperators}

PlanChoices == UNION {PlansOfLen(n) : n \in 0..MaxPlanLen}

ReadyInit ==
  /\ operations \in PlanChoices
  /\ executed \in SUBSET SchedNames
  /\ ready = <<>>
  /\ pc = "plan"
  /\ config = MakeConfig(<<>>, RequiredSlots, NoDeps)
  /\ ctx \in CtxChoices
  /\ request_id = None
  /\ context = _initialize_context(config, None)
  /\ op = NoneOp
  /\ pending = None
  /\ cancelled = FALSE
  /\ global_sequence = 0
  /\ op_sequences = [s \in SlotNames |-> 0]
  /\ inflight = {}
  /\ channel = <<>>
  /\ emitted = <<>>
  /\ emitCalls = 0
  /\ pubFailures = 0
  /\ opEmits = 0
  /\ execLog = <<>>
  /\ wrote = {}
  /\ iterations = 0
  /\ warnings = <<>>
  /\ analyticsLog = <<>>
  /\ sink = <<>>

\* ready = self._find_ready_operations(operations, executed)
FindReady ==
  /\ pc = "plan"
  /\ ready' = _find_ready_operations(operations, executed)
  /\ pc' = "ready"
  /\ UNCHANGED <<config, ctx, request_id, wrote, operations, context, executed, op,
                 pending, cancelled, inflight, opEmits, execLog, iterations,
                 warnings, analyticsLog, sink>>
  /\ UNCHANGED emitterVars

ReadySpec == ReadyInit /\ [][FindReady]_vars

(***************************************************************************)
(* C4                                                                      *)
(***************************************************************************)
\* the places of the plan whose operator is not executed and has every
\* dependency executed or not in the plan
ReadyPlaces(ops, done) ==
  {i \in 1..Len(ops) :
     /\ ops[i].name \notin done
     /\ ops[i].depends_on \subseteq done \cup (SchedNames \ PlanNames(ops))}

\* the k-th smallest element of a set of numbers
Kth(I, k) == CHOOSE i \in I : Cardinality({j \in I : j <= i}) = k

\* C4: _find_ready_operations returns exactly the operators of the plan, in
\* plan order, whose name is not in executed and whose every dependency is in
\* executed or is not the name of an operator of the plan; with executed
\* empty an operator that names only operators absent from the plan is ready
C4_ReadyExactly ==
  pc = "ready" =>
    LET I == ReadyPlaces(operations, executed)
    IN /\ Len(ready) = Cardinality(I)
       /\ \A k \in 1..Len(ready) : ready[k] = operations[Kth(I, k)]
       /\ executed = {} =>
            \A i \in 1..Len(operations) :
              operations[i].depends_on \cap PlanNames(operations) = {} =>
                \E k \in 1..Len(ready) : ready[k] = operations[i]

\* with executed empty, an operator whose dependencies are all absent from
\* the plan is returned and one that waits for an operator of the plan is not
C4_Witness ==
  /\ pc = "ready" /\ executed = {}
  /\ Len(operations) = 2 /\ Len(ready) = 1
  /\ ready[1].depends_on # {}
  /\ ready[1].depends_on \cap PlanNames(operations) = {}

(***************************************************************************)
(* Vocabulary of the properties.                                           *)
(***************************************************************************)
Streaming == request_id # None

\* the run ended on the success path or on the operator failure path
EndedPlainly == Ended /\ pending \in {None} \cup ErrorChoices

\* an event the executor emits itself, not one of an operator
OwnEvent(e) == e.type # "progress"

\* the positions of the events of `log` of type t and operator o
At(log, t, o) == {i \in 1..Len(log) : log[i].type = t /\ log[i].op = o}

\* the positions of the events of `log` of type t
OfType(log, t) == {i \in 1..Len(log) : log[i].type = t}

\* the events of a log, as a set
Events(log) == {log[i] : i \in 1..Len(log)}

(***************************************************************************)
(* C1                                                                      *)
(***************************************************************************)
\* C1, as claimed: in a streaming run that ends by returning or by raising an
\* operator failure, the messages published on the channel begin with start,
\* end with done and carry the seq values 1, 2, 3, ... in order
C1_ChannelStartDoneDense ==
  (EndedPlainly /\ Streaming) =>
    /\ channel # <<>>
    /\ channel[1].type = "start"
    /\ channel[Len(channel)].type = "done"
    /\ \A i \in 1..Len(channel) : channel[i].seq = i

\* C1, amended: the events in the order the emitter numbers them begin with
\* start, end with done, and the executor's own events carry as seq their
\* position 1, 2, 3, ... in that numbering, which has no gaps. The channel
\* carries only events of that numbering, each at most once; it carries all
\* of them in order when no publish fails and no operator emits by itself.
C1_EmittedStartDoneDense ==
  Streaming =>
    /\ Len(emitted) = global_sequence
    /\ \A i \in 1..Len(emitted) :
         /\ emitted[i].type = "start" <=> i = 1
         /\ emitted[i].type = "done" => i = Len(emitted)
         /\ OwnEvent(emitted[i]) => emitted[i].seq = i
    /\ EndedPlainly => emitted[Len(emitted)].type = "done"
    /\ Events(channel) \subseteq Events(emitted)
    /\ Cardinality(Events(channel)) = Len(channel)
    /\ (pubFailures = 0 /\ opEmits = 0 /\ ~cancelled) => channel = emitted

\* a streaming run ended by an operator failure, one publish having failed
C1_Witness ==
  /\ Ended /\ Streaming /\ pending \in ErrorChoices
  /\ pubFailures > 0
  /\ Len(channel) + 1 = Len(emitted)
  /\ Len(emitted) >= 5

(***************************************************************************)
(* C2                                                                      *)
(***************************************************************************)
\* the terminal events of operator o in the numbering
Terminals(o) == At(emitted, "operator_end", o) \cup At(emitted, "error", o)

\* C2: in streaming mode an operator has at most one operator_start, every
\* operator_end or error of it comes after its operator_start, and once the
\* run has ended every started operator has exactly one terminal event,
\* operator_end or error, never both and never neither
C2_OneStartOneTerminal ==
  Streaming =>
    \A o \in SlotNames :
      /\ Cardinality(At(emitted, "operator_start", o)) <= 1
      /\ Cardinality(Terminals(o)) <= 1
      /\ \A j \in Terminals(o) : \E i \in At(emitted, "operator_start", o) : i < j
      /\ (Ended /\ At(emitted, "operator_start", o) # {}) =>
           Cardinality(Terminals(o)) = 1

(***************************************************************************)
(* C3                                                                      *)
(***************************************************************************)
\* C3: an operator's execute is entered only when every name of its
\* depends_on that is the name of an operator of the plan is the name of an
\* operator that has returned from execute (it has a timing); the names that
\* are not in the plan are not waited for
C3_StartedAfterPlanDependencies ==
  /\ executed = DOMAIN context.timings
  /\ \A i \in 1..Len(execLog) :
       /\ execLog[i].executed \subseteq {execLog[j].name : j \in 1..(i - 1)}
       /\ \A dep \in config[execLog[i].name].depends_on :
            dep \in PlanNames(operations) => dep \in execLog[i].executed

\* an operator has been started whose depends_on names an operator of the
\* plan, which had completed, and a name that is not in the plan
C3_Witness ==
  \E i \in 1..Len(execLog) :
    LET deps == config[execLog[i].name].depends_on
    IN /\ deps \cap PlanNames(operations) # {}
       /\ deps \ PlanNames(operations) # {}
       /\ deps \cap PlanNames(operations) \subseteq execLog[i].executed

(***************************************************************************)
(* C5                                                                      *)
(***************************************************************************)
\* an operator's execute has raised
Failed == pc = "except" \/ context.errors # <<>>

\* once an operator has failed no operator is started any more
NoStartAfterFailure == [][Failed => execLog' = execLog]_vars

\* C5, as claimed: when an operator fails no further operator is started and
\* execute ends by raising that same failure
C5_FailureStopsAndReraisesIt ==
  /\ NoStartAfterFailure
  /\ [](Failed => pc # "returned")
  /\ []((Ended /\ Failed) => pending = context.errors[1].error)

\* C5, amended: when an operator fails no further operator is started and
\* execute ends by raising, never by returning the context; it raises that
\* same failure, or CancelledError when the caller cancels the call while the
\* error event or the done event is being published
C5_FailureStopsAndRaises ==
  /\ NoStartAfterFailure
  /\ [](Failed => pc # "returned")
  /\ []((Ended /\ Failed) =>
          \/ pending = context.errors[1].error
          \/ cancelled /\ pending = CancelledError)
  /\ []((Ended /\ Failed /\ ~cancelled) =>
          pc = "raised" /\ pending = context.errors[1].error)

\* the first operator of a batch has failed, the rest of the batch was never
\* started and execute has raised the failure
C5_Witness ==
  /\ pc = "raised" /\ pending \in ErrorChoices /\ ~cancelled
  /\ ready # <<>>
  /\ Len(execLog) = 1

(***************************************************************************)
(* C6                                                                      *)
(***************************************************************************)
\* C6: in a streaming run in which an operator failed, the numbered events
\* hold operator_start of that operator, later the error event naming it,
\* then done as the next and last event; no results and no summary event is
\* emitted and the context is not finalized
C6_ErrorThenDone ==
  (Streaming /\ context.errors # <<>>) =>
    LET failed == context.errors[1].operation
        errs == OfType(emitted, "error")
    IN /\ OfType(emitted, "results") = {}
       /\ OfType(emitted, "summary") = {}
       /\ ~context.execution_summary.present
       /\ context.final_results \in {Absent} \cup {w.value : w \in wrote}
       /\ Len(context.errors) = 1
       /\ pc \notin {"except"} =>
            /\ Cardinality(errs) = 1
            /\ \A k \in errs :
                 /\ emitted[k].operation = failed
                 /\ emitted[k].op = failed
                 /\ emitted[k].message = context.errors[1].error
                 /\ \E i \in At(emitted, "operator_start", failed) : i < k
                 /\ \A j \in (k + 1)..Len(emitted) :
                      j = k + 1 /\ emitted[j].type = "done"
                 /\ Ended => Len(emitted) = k + 1

\* a streaming run ended after an operator failed that ran second
C6_Witness ==
  /\ Ended /\ Streaming /\ context.errors # <<>>
  /\ Len(execLog) >= 2
  /\ emitted[Len(emitted)].type = "done"
  /\ emitted[Len(emitted) - 1].type = "error"

(***************************************************************************)
(* C7                                                                      *)
(***************************************************************************)
\* C7: without a request_id nothing is published and emit leaves the
\* sequence counters as they are, whoever calls it
C7_NoRequestIdNoEvents ==
  ~Streaming =>
    /\ channel = <<>>
    /\ inflight = {}
    /\ emitted = <<>>
    /\ global_sequence = 0
    /\ \A o \in SlotNames : op_sequences[o] = 0

\* a run without request_id ended on the failure path, the executor and an
\* operator having called emit
C7_Witness ==
  /\ ~Streaming /\ Ended /\ pending \in ErrorChoices
  /\ opEmits > 0
  /\ emitCalls >= 5

(***************************************************************************)
(* C8                                                                      *)
(***************************************************************************)
\* C8: a call that ends by returning or by raising an operator failure has
\* recorded exactly one search_query event; no call records two
C8_OneAnalyticsEvent ==
  /\ Len(analyticsLog) <= 1
  /\ \A i \in 1..Len(analyticsLog) : analyticsLog[i].event_name = "search_query"
  /\ EndedPlainly => Len(analyticsLog) = 1

\* a call has raised an operator failure and its event is recorded
C8_Witness ==
  /\ pc = "raised" /\ pending \in ErrorChoices
  /\ Len(analyticsLog) = 1

(***************************************************************************)
(* C9                                                                      *)
(***************************************************************************)
\* both required slots of the config hold an operator
RequiredPresent == \A slot \in RequiredSlots : Populated(config, slot)

\* C9, as claimed: a call that returns, returns a context whose final_results
\* is present and not None, whatever the operators stored
C9_FinalResultsNotNull ==
  (pc = "returned" /\ RequiredPresent) =>
    context.final_results \notin {Absent, Null}

\* C9, amended: a call that returns, returns a context in which the key
\* final_results is present; its value is None only when an operator stored
\* None in final_results, or stored None in raw_results and no operator
\* stored final_results
C9_FinalResultsPresent ==
  (pc = "returned" /\ RequiredPresent) =>
    /\ context.final_results # Absent
    /\ context.final_results = Null =>
         \/ \E w \in wrote : w.key = "final_results" /\ w.value = Null
         \/ /\ \E w \in wrote : w.key = "raw_results" /\ w.value = Null
            /\ \A w \in wrote : w.key # "final_results"

\* a call returned whose operators stored neither raw_results nor
\* final_results
C9_Witness ==
  /\ pc = "returned" /\ RequiredPresent
  /\ wrote = {}
  /\ executed # {}
  /\ context.final_results = List(<<>>)

(***************************************************************************)
(* C10                                                                     *)
(***************************************************************************)
\* C10: the scheduler loop ends: every iteration but the last completes an
\* operator that had not executed, so there are at most as many iterations as
\* operators, and execute is never stuck: until it has ended it has a step
C10_LoopTerminates ==
  /\ iterations <= Cardinality(executed) + 1
  /\ Cardinality(executed) <= Len(operations)
  /\ iterations <= Len(operations)
  /\ pc = "loop" => iterations <= Cardinality(executed)
  /\ Ended \/ ENABLED Next

\* a call returned although operators of a dependency cycle could never
\* become ready, after another operator had run
C10_Witness ==
  /\ pc = "returned"
  /\ warnings # <<>>
  /\ executed # {}
  /\ Cardinality(executed) < Len(operations)

(***************************************************************************)
(* emit on its own, called concurrently: the internal tasks of two         *)
(* operators each call context["emit"] a few times; a task is suspended in *)
(* its publish while other tasks take the counters.                        *)
(***************************************************************************)
\* emit calls the tasks of one operator make
MaxTaskEmits == 2

\* the operators whose tasks emit concurrently
EmitOps == {"query_expansion", "embedding"}

EmitInit ==
  /\ request_id \in RequestIdChoices
  /\ pc = "tasks"
  /\ config = MakeConfig(<<>>, RequiredSlots \cup EmitOps, NoDeps)
  /\ ctx \in CtxChoices
  /\ operations = _extract_operations_from_config(config)
  /\ context = _initialize_context(config, request_id)
  /\ executed = {}
  /\ ready = <<>>
  /\ op = NoneOp
  /\ pending = None
  /\ cancelled = FALSE
  /\ global_sequence = 0
  /\ op_sequences = [s \in SlotNames |-> 0]
  /\ inflight = {}
  /\ channel = <<>>
  /\ emitted = <<>>
  /\ emitCalls = 0
  /\ pubFailures = 0
  /\ opEmits = 0
  /\ execLog = <<>>
  /\ wrote = {}
  /\ iterations = 0
  /\ warnings = <<>>
  /\ analyticsLog = <<>>
  /\ sink = <<>>

\* the emit calls made so far for operator o: the events numbered for it
EmitsOf(o) == Cardinality({i \in 1..Len(emitted) : emitted[i].op = o})

\* a task of operator o calls emit: the counters are taken under emit_lock and
\* the payload is built; the task is then suspended in the publish
TaskEmit ==
  /\ pc = "tasks"
  /\ \E o \in EmitOps :
       /\ IF request_id = None
            THEN /\ emitCalls < MaxTaskEmits * Cardinality(EmitOps)
                 /\ UNCHANGED <<global_sequence, op_sequences, emitted, inflight>>
            ELSE /\ EmitsOf(o) < MaxTaskEmits
                 /\ \E data \in OpDataChoices(o) :
                      /\ Number(o)
                      /\ emitted' = Append(emitted, Numbered("progress", data, o))
                      /\ inflight' = inflight \cup {Numbered("progress", data, o)}
  /\ emitCalls' = emitCalls + 1
  /\ opEmits' = opEmits + 1
  /\ UNCHANGED <<config, ctx, request_id, wrote, pc, operations, context, executed,
                 ready, op, pending, cancelled, channel, pubFailures, execLog,
                 iterations, warnings, analyticsLog, sink>>

\* the publish of a suspended task completes and the task publishes again
TaskPublishRepeats ==
  /\ pc = "tasks"
  /\ \E payload \in inflight :
       /\ UNCHANGED inflight
       /\ Len(channel) < 2 * MaxTaskEmits
       /\ Publish(payload)
  /\ UNCHANGED <<config, ctx, request_id, wrote, pc, operations, context, executed,
                 ready, op, pending, cancelled, global_sequence, op_sequences,
                 emitted, emitCalls, opEmits, execLog, iterations, warnings,
                 analyticsLog, sink>>

\* the publish of a suspended task completes, or fails and is swallowed
TaskPublish ==
  /\ pc = "tasks"
  /\ \E payload \in inflight :
       /\ inflight' = inflight \ {payload}
       /\ Publish(payload)
  /\ UNCHANGED <<config, ctx, request_id, wrote, pc, operations, context, executed,
                 ready, op, pending, cancelled, global_sequence, op_sequences,
                 emitted, emitCalls, opEmits, execLog, iterations, warnings,
                 analyticsLog, sink>>

EmitNext == TaskEmit \/ TaskPublish

EmitSpec == EmitInit /\ [][EmitNext]_vars

(***************************************************************************)
(* C11                                                                     *)
(***************************************************************************)
\* the values of field f over a set of events
Values(S, f) == {e[f] : e \in S}

\* the numbered events of operator o
EventsOf(o) == {e \in Events(emitted) : e.op = o}

\* C11: when the tasks of several operators call emit concurrently, under
\* every interleaving of their counter steps and publishes no two events have
\* the same seq, the seq values are exactly 1..n for the n events numbered,
\* and for each operator the op_seq values of its events are exactly 1..k for
\* its k events; what is published or still being published is among them
C11_ConcurrentCountersDense ==
  /\ Cardinality(Events(emitted)) = Len(emitted)
  /\ \A i, j \in 1..Len(emitted) : emitted[i].seq = emitted[j].seq => i = j
  /\ Values(Events(emitted), "seq") = 1..Len(emitted)
  /\ global_sequence = Len(emitted)
  /\ \A o \in EmitOps :
       /\ Values(EventsOf(o), "op_seq") = 1..Cardinality(EventsOf(o))
       /\ op_sequences[o] = Cardinality(EventsOf(o))
       /\ \A i, j \in 1..Len(emitted) :
            (emitted[i].op = o /\ emitted[j].op = o /\ i < j) =>
              emitted[i].op_seq < emitted[j].op_seq
  /\ inflight \cup Events(channel) \subseteq Events(emitted)
  /\ Cardinality(Events(channel)) = Len(channel)

\* two operators have each emitted twice, their calls interleaved, and the
\* four events were published in another order than they were numbered
C11_Witness ==
  /\ Len(emitted) = 4
  /\ \A o \in EmitOps : Cardinality(EventsOf(o)) = 2
  /\ emitted[1].op # emitted[2].op /\ emitted[2].op # emitted[3].op
  /\ Len(channel) = 4
  /\ channel # emitted

(***************************************************************************)
(* C12                                                                     *)
(***************************************************************************)
\* where execute goes on after an emit at pc that completed normally
AfterEmit(at) ==
  CASE at = "entry" -> {"loop"}
    [] at = "for" -> {"execute"}
    [] at = "execute" -> {"execute"}
    [] at = "op_end" -> {"loop", "for"}
    [] at = "except" -> {"finally"}
    [] at = "finalize" -> {"summary"}
    [] at = "summary" -> {"finally"}
    [] at = "emit_done" -> IF pending = None THEN {"returned"} ELSE {"raised"}
    [] OTHER -> {}

\* a step in which a publish fails
PublishFails == pubFailures' # pubFailures

\* C12: a step in which the publish of an event fails goes on as the emit that
\* succeeded would: no exception arises, nothing else is recorded in errors
\* than the failure the except clause is handling, and execute continues at
\* the next statement; the entries of errors are failures raised by operators;
\* a run that returns after publish failures has run every operator of the
\* plan that could become ready
C12_PublishFailureSwallowed ==
  /\ [][PublishFails =>
          /\ pending' = pending
          /\ cancelled' = cancelled
          /\ pc' \in AfterEmit(pc)
          /\ executed' = executed
          /\ pc # "except" => context'.errors = context.errors]_vars
  /\ [](\A i \in 1..Len(context.errors) : context.errors[i].error \in ErrorChoices)
  /\ [](pending \in {None, CancelledError, "AttributeError"} \cup ErrorChoices)
  /\ []((pc = "returned" /\ pubFailures > 0) =>
          /\ context.errors = <<>>
          /\ \/ executed = PlanNames(operations)
             \/ /\ warnings # <<>>
                /\ _find_ready_operations(operations, executed) = <<>>)

\* a streaming run returned with every operator executed although the publish
\* of the first operator's operator_start had failed
C12_Witness ==
  /\ pc = "returned" /\ Streaming
  /\ pubFailures > 0
  /\ Len(operations) >= 2 /\ executed = PlanNames(operations)
  /\ emitted[2].type = "operator_start"
  /\ emitted[2] \notin Events(channel)

(***************************************************************************)
(* C13                                                                     *)
(***************************************************************************)
\* the call was cancelled while op was executing: op had been started, has
\* not completed and has not raised by itself
CancelledInOperator ==
  /\ cancelled /\ pending = CancelledError
  /\ execLog # <<>> /\ execLog[Len(execLog)].name = op.name
  /\ op.name \notin executed
  /\ \A e \in ErrorChoices :
       \A i \in 1..Len(context.errors) : context.errors[i].error # e

\* C13: a call cancelled while an operator was executing ends like a call
\* whose operator failed: errors has an entry for that operator, in streaming
\* mode an error event of that operator was emitted, and the cancellation
\* goes on to the caller
C13_CancellationHandledAsFailure ==
  (Ended /\ CancelledInOperator) =>
    /\ pc = "raised"
    /\ \E i \in 1..Len(context.errors) : context.errors[i].operation = op.name
    /\ Streaming => At(emitted, "error", op.name) # {}

(***************************************************************************)
(* C14                                                                     *)
(***************************************************************************)
\* C14: however a call ends, by returning, by an operator's failure or by a
\* cancellation at any suspension point, it has recorded the analytics event
\* exactly once and, in streaming mode, emitted done exactly once
C14_CleanupOnEveryPath ==
  Ended =>
    /\ Len(analyticsLog) = 1
    /\ Streaming => Cardinality(OfType(emitted, "done")) = 1

(***************************************************************************)
(* C15                                                                     *)
(***************************************************************************)
\* C15: with a required slot of the config missing, execute raises before it
\* emits start and before it starts an operator
C15_PlanErrorBeforeStart ==
  (~RequiredPresent /\ pc # "entry") =>
    /\ pc = "raised"
    /\ emitted = <<>> /\ channel = <<>> /\ emitCalls = 0
    /\ execLog = <<>>

(***************************************************************************)
(* The planner on its own: every combination of populated slots, planned   *)
(* twice.                                                                  *)
(***************************************************************************)
PlanInit ==
  /\ \E q \in QueryChoices, populated \in SUBSET SlotNames, deps \in DependsOnChoices :
       config = MakeConfig(q, populated, deps)
  /\ pc = "config"
  /\ operations = <<>>
  /\ ctx \in CtxChoices
  /\ request_id = None
  /\ context = _initialize_context(config, None)
  /\ executed = {}
  /\ ready = <<>>
  /\ op = NoneOp
  /\ pending = None
  /\ cancelled = FALSE
  /\ global_sequence = 0
  /\ op_sequences = [s \in SlotNames |-> 0]
  /\ inflight = {}
  /\ channel = <<>>
  /\ emitted = <<>>
  /\ emitCalls = 0
  /\ pubFailures = 0
  /\ opEmits = 0
  /\ execLog = <<>>
  /\ wrote = {}
  /\ iterations = 0
  /\ warnings = <<>>
  /\ analyticsLog = <<>>
  /\ sink = <<>>

\* operations = self._extract_operations_from_config(config), once and again
PlanOperations ==
  /\ pc \in {"config", "planned"}
  /\ operations' = _extract_operations_from_config(config)
  /\ pc' = IF pc = "config" THEN "planned" ELSE "planned_again"
  /\ UNCHANGED <<config, ctx, request_id, wrote, context, executed, ready, op,
                 pending, cancelled, inflight, opEmits, execLog, iterations,
                 warnings, analyticsLog, sink>>
  /\ UNCHANGED emitterVars

PlanSpec == PlanInit /\ [][PlanOperations]_vars

(***************************************************************************)
(* C16                                                                     *)
(***************************************************************************)
\* the places of Slots the plan of config c takes: the populated slots and
\* the two required slots
PlannedPlaces(c) ==
  {i \in 1..Len(Slots) : c[Slots[i]] # NoneOp \/ Slots[i] \in RequiredSlots}

\* the plan holds, in the fixed order of the slots, what the populated slots
\* and the two required slots of the config hold
PlanInSlotOrder ==
  /\ Len(operations) = Cardinality(PlannedPlaces(config))
  /\ \A k \in 1..Len(operations) :
       operations[k] = config[Slots[Kth(PlannedPlaces(config), k)]]
  /\ \E k \in 1..Len(operations) : operations[k] = config["embedding"]
  /\ \E k \in 1..Len(operations) : operations[k] = config["vector_search"]
  /\ RequiredPresent =>
       /\ PlanNames(operations) = {s \in SlotNames : config[s] # NoneOp}
       /\ \A k \in 1..Len(operations) :
            operations[k].name = Slots[Kth(PlannedPlaces(config), k)]
       /\ \A j, k \in 1..Len(operations) :
            j < k =>
              \E a, b \in 1..Len(Slots) :
                a < b /\ Slots[a] = operations[j].name /\ Slots[b] = operations[k].name

\* C16: the planner returns the operators of the populated slots, and only
\* those, in the fixed order query_expansion, query_interpretation,
\* qdrant_filter, embedding, vector_search, recency, reranking, completion,
\* the two required slots always included; it leaves the config as it is and
\* a second run on the same config returns the same list in the same order
C16_PlanPopulatedInFixedOrder ==
  /\ [](pc \in {"planned", "planned_again"} => PlanInSlotOrder)
  /\ [][config' = config]_vars
  /\ [][pc = "planned" => operations' = operations]_vars

\* a config with some optional slots populated and others null was planned
\* twice
C16_Witness ==
  /\ pc = "planned_again"
  /\ RequiredPresent
  /\ Len(operations) = 5
  /\ {"query_expansion", "query_interpretation", "completion"} \subseteq PlanNames(operations)
  /\ "recency" \notin PlanNames(operations)

(***************************************************************************)
(* execute on the config with all eight slots populated, with operators    *)
(* that do not emit by themselves.                                         *)
(***************************************************************************)
\* every operator waits for the slot before it
ChainDeps ==
  [s \in SlotNames |->
     {Slots[i - 1] : i \in {j \in 2..Len(Slots) : Slots[j] = s}}]

\* depends_on declarations tried with the full config
FullDependsOnChoices == {NoDeps, DeclaredDeps, ReverseDeps, ChainDeps}

FullInit ==
  /\ \E q \in QueryChoices, deps \in FullDependsOnChoices :
       config = MakeConfig(q, SlotNames, deps)
  /\ ctx \in CtxChoices
  /\ request_id \in RequestIdChoices
  /\ pc = "entry"
  /\ operations = <<>>
  /\ context = _initialize_context(config, None)
  /\ executed = {}
  /\ ready = <<>>
  /\ op = NoneOp
  /\ pending = None
  /\ cancelled = FALSE
  /\ global_sequence = 0
  /\ op_sequences = [s \in SlotNames |-> 0]
  /\ inflight = {}
  /\ channel = <<>>
  /\ emitted = <<>>
  /\ emitCalls = 0
  /\ pubFailures = 0
  /\ opEmits = 0
  /\ execLog = <<>>
  /\ wrote = {}
  /\ iterations = 0
  /\ warnings = <<>>
  /\ analyticsLog = <<>>
  /\ sink = <<>>

FullNext ==
  \/ Enter
  \/ LoopCheck
  \/ ForNext
  \/ OpReturn
  \/ OpRaise
  \/ OpCancelled
  \/ EmitOperatorEnd
  \/ HandleError
  \/ Finalize
  \/ EmitSummary
  \/ TrackAnalytics
  \/ EmitDone

FullSpec == FullInit /\ [][FullNext]_vars

(***************************************************************************)
(* C17                                                                     *)
(***************************************************************************)
\* all eight slots of the config hold an operator
AllPopulated == \A slot \in SlotNames : Populated(config, slot)

\* the channel holds the twenty events of the full pipeline, numbered 1 to 20:
\* start, operator_start and operator_end of each operator in the order of
\* the slots, results, summary, done
TwentyEventsInSlotOrder ==
  /\ Len(channel) = 2 * Len(Slots) + 4
  /\ \A i \in 1..Len(channel) : channel[i].seq = i
  /\ channel[1].type = "start"
  /\ \A k \in 1..Len(Slots) :
       /\ channel[2 * k].type = "operator_start"
       /\ channel[2 * k].op = Slots[k]
       /\ channel[2 * k + 1].type = "operator_end"
       /\ channel[2 * k + 1].op = Slots[k]
  /\ channel[2 * Len(Slots) + 2].type = "results"
  /\ channel[2 * Len(Slots) + 3].type = "summary"
  /\ channel[2 * Len(Slots) + 4].type = "done"

\* the largest number of a non-empty set of numbers
Max(S) == CHOOSE x \in S : \A y \in S : y <= x

\* the scheduler iteration in which the operator of slot s of the full config
\* c becomes ready: one after the last of its dependencies (no cycles)
RECURSIVE BatchOf(_, _)
BatchOf(c, s) ==
  IF c[s].depends_on = {} THEN 1
  ELSE 1 + Max({BatchOf(c, d) : d \in c[s].depends_on})

\* no operator becomes ready in an earlier iteration than the operator of an
\* earlier slot
BatchesFollowSlots ==
  \A i, j \in 1..Len(Slots) :
    i < j => BatchOf(config, Slots[i]) <= BatchOf(config, Slots[j])

\* C17, as claimed: a streaming run on the full config that returns without a
\* failed publish has published exactly the twenty events in slot order
C17_TwentyEvents ==
  (pc = "returned" /\ Streaming /\ AllPopulated /\ pubFailures = 0) =>
    TwentyEventsInSlotOrder

\* C17, amended: it has published twenty events numbered 1 to 20: start, then
\* for each of the eight operators operator_start immediately followed by its
\* operator_end, then results, summary, done; the operators come in the order
\* of the slots exactly when no operator becomes ready in an earlier scheduler
\* iteration than the operator of an earlier slot, as when no operator
\* declares a dependency; otherwise they come batch by batch
C17_TwentyEventsInBatchOrder ==
  (pc = "returned" /\ Streaming /\ AllPopulated /\ pubFailures = 0) =>
    /\ TwentyEventsInSlotOrder <=> BatchesFollowSlots
    /\ Len(channel) = 2 * Len(Slots) + 4
    /\ \A i \in 1..Len(channel) : channel[i].seq = i
    /\ channel[1].type = "start"
    /\ channel[Len(channel) - 2].type = "results"
    /\ channel[Len(channel) - 1].type = "summary"
    /\ channel[Len(channel)].type = "done"
    /\ \A k \in 1..Len(Slots) :
         /\ channel[2 * k].type = "operator_start"
         /\ channel[2 * k + 1].type = "operator_end"
         /\ channel[2 * k + 1].op = channel[2 * k].op
    /\ \A j, k \in 1..Len(Slots) :
         LET a == channel[2 * j].op
             b == channel[2 * k].op
         IN /\ j # k => a # b
            /\ j < k => BatchOf(config, a) <= BatchOf(config, b)

\* the full pipeline has returned in streaming mode with its twenty events in
\* the order of the slots, and no publish failed
C17_Witness ==
  /\ pc = "returned" /\ Streaming /\ AllPopulated /\ pubFailures = 0
  /\ BatchesFollowSlots
  /\ config["completion"].depends_on # {}
  /\ TwentyEventsInSlotOrder

(***************************************************************************)
(* C18                                                                     *)
(***************************************************************************)
\* every optional slot of the config is null and both required slots hold an
\* operator
OnlyRequired == {s \in SlotNames : Populated(config, s)} = RequiredSlots

\* the names of the operators entered, in the order they were entered
StartedNames == [i \in 1..Len(execLog) |-> execLog[i].name]

\* what a returned minimal run has besides its two operators: final_results
\* is the raw_results vector_search stored (the empty list if it stored none),
\* errors is empty and nothing was published
MinimalRunResults ==
  /\ context.final_results = GetOrEmpty(context.raw_results)
  /\ \A w \in wrote :
       w.key = "raw_results" =>
         w.op = "vector_search" /\ context.final_results = w.value
  /\ context.errors = <<>>
  /\ channel = <<>>

\* neither required operator waits for itself and they do not wait for each
\* other
RequiredCanRun ==
  LET e == config["embedding"].depends_on
      v == config["vector_search"].depends_on
  IN /\ "embedding" \notin e
     /\ "vector_search" \notin v
     /\ ~("vector_search" \in e /\ "embedding" \in v)

\* C18, as claimed: a non-streaming run on a config with only the two
\* required operators that returns has run exactly two operators, embedding
\* before vector_search when vector_search depends on embedding, has timings
\* with two keys, and its results are those of vector_search
C18_MinimalRunsTwo ==
  (pc = "returned" /\ ~Streaming /\ OnlyRequired) =>
    /\ Len(execLog) = 2
    /\ executed = RequiredSlots
    /\ "embedding" \in config["vector_search"].depends_on =>
         StartedNames = <<"embedding", "vector_search">>
    /\ DOMAIN context.timings = RequiredSlots
    /\ MinimalRunResults

\* C18, amended: it has done so when neither operator waits for itself and
\* they do not wait for each other; otherwise it has run only the operators
\* that became ready, timings has their keys, and a warning names the rest
C18_MinimalRunsTwoWhenRunnable ==
  (pc = "returned" /\ ~Streaming /\ OnlyRequired) =>
    /\ MinimalRunResults
    /\ DOMAIN context.timings = executed
    /\ Len(execLog) = Cardinality(executed)
    /\ executed = RequiredSlots <=> RequiredCanRun
    /\ executed = RequiredSlots <=> warnings = <<>>
    /\ RequiredCanRun =>
         /\ "embedding" \in config["vector_search"].depends_on =>
              StartedNames = <<"embedding", "vector_search">>
         /\ "vector_search" \in config["embedding"].depends_on =>
              StartedNames = <<"vector_search", "embedding">>
         /\ (config["vector_search"].depends_on \cup config["embedding"].depends_on)
              \cap RequiredSlots = {} =>
              StartedNames = <<"embedding", "vector_search">>

\* the minimal run has returned, vector_search depending on embedding and
\* having stored two results
C18_Witness ==
  /\ pc = "returned" /\ ~Streaming /\ OnlyRequired
  /\ "embedding" \in config["vector_search"].depends_on
  /\ StartedNames = <<"embedding", "vector_search">>
  /\ context.final_results = List(<<1, 2>>)
  /\ Cardinality(DOMAIN context.timings) = 2

(***************************************************************************)
(* C19                                                                     *)
(***************************************************************************)
\* the one position of the event of type t in the numbering
TheOne(t) == CHOOSE i \in OfType(emitted, t) : TRUE

\* C19: a streaming run that returns has emitted exactly one start, one
\* results, one summary and one done, in that order; every operator_start and
\* operator_end, and every event of an operator, lies between start and
\* results; the results event carries final_results as finalization left it
C19_StartResultsSummaryDone ==
  (pc = "returned" /\ Streaming) =>
    /\ \A t \in {"start", "results", "summary", "done"} :
         Cardinality(OfType(emitted, t)) = 1
    /\ TheOne("start") = 1
    /\ TheOne("results") = Len(emitted) - 2
    /\ TheOne("summary") = Len(emitted) - 1
    /\ TheOne("done") = Len(emitted)
    /\ \A i \in 1..Len(emitted) :
         emitted[i].type \in {"operator_start", "operator_end", "progress"} <=>
           (1 < i /\ i < TheOne("results"))
    /\ OfType(emitted, "error") = {}
    /\ emitted[TheOne("results")].results = context.final_results
    /\ context.execution_summary.present
    /\ context.final_results =
         IF \E w \in wrote : w.key = "final_results"
           THEN (CHOOSE w \in wrote : w.key = "final_results").value
           ELSE GetOrEmpty(context.raw_results)

\* a streaming run has returned whose results event carries the raw_results
\* of vector_search, no operator having stored final_results
C19_Witness ==
  /\ pc = "returned" /\ Streaming
  /\ \A w \in wrote : w.key # "final_results"
  /\ emitted[Len(emitted) - 2].type = "results"
  /\ emitted[Len(emitted) - 2].results = List(<<1, 2>>)
  /\ Cardinality(OfType(emitted, "operator_end")) >= 2

(***************************************************************************)
(* C20                                                                     *)
(***************************************************************************)
\* C20: the search_query event of a run that an operator's failure ended has
\* status error; status success is recorded only for runs that return
C20_StatusReflectsOutcome ==
  (Ended /\ analyticsLog # <<>>) =>
    LET status == analyticsLog[1].properties.status
    IN /\ context.errors # <<>> => status = "error"
       /\ status = "success" => pc = "returned"

(***************************************************************************)
(* execute with an analytics sink that may fail.                           *)
(***************************************************************************)
SinkNext == FullNext \/ TrackAnalyticsSinkFails

SinkSpec == Init /\ [][SinkNext]_vars

(***************************************************************************)
(* C21                                                                     *)
(***************************************************************************)
\* the sink failed to store the event handed to track_event
SinkFailed == Len(sink) < Len(analyticsLog)

EntryState(populatedChoices, dependsOnChoices, requestIdChoices) ==
  /\ \E q \in QueryChoices, populated \in populatedChoices, deps \in dependsOnChoices :
       config = MakeConfig(q, populated, deps)
  /\ ctx \in CtxChoices
  /\ request_id \in requestIdChoices
  /\ pc = "entry"
  /\ operations = <<>>
  /\ context = _initialize_context(config, None)
  /\ executed = {}
  /\ ready = <<>>
  /\ op = NoneOp
  /\ pending = None
  /\ cancelled = FALSE
  /\ global_sequence = 0
  /\ op_sequences = [s \in SlotNames |-> 0]
  /\ inflight = {}
  /\ channel = <<>>
  /\ emitted = <<>>
  /\ emitCalls = 0
  /\ pubFailures = 0
  /\ opEmits = 0
  /\ execLog = <<>>
  /\ wrote = {}
  /\ iterations = 0
  /\ warnings = <<>>
  /\ analyticsLog = <<>>
  /\ sink = <<>>

\* only qdrant_filter declares dependencies
FilterAloneDeps ==
  [NoDeps EXCEPT !["qdrant_filter"] = {"query_interpretation", "query_expansion"}]

SoftInit ==
  EntryState({RequiredSlots \cup {"query_expansion", "qdrant_filter"}},
             {DeclaredDeps, FilterAloneDeps}, RequestIdChoices)

SoftSpec == SoftInit /\ [][FullNext]_vars

(***************************************************************************)
(* C22                                                                     *)
(***************************************************************************)
\* the entries of execLog of the operator named o
StartsOf(o) == {i \in 1..Len(execLog) : execLog[i].name = o}

\* C22: with query_interpretation null and qdrant_filter depending on
\* query_interpretation and query_expansion, qdrant_filter is started only
\* after query_expansion has completed, and in the scheduler iteration that
\* follows the one in which query_expansion ran: it is in the ready list of
\* that iteration, and a run that returns has executed it
C22_FilterRunsAfterExpansion ==
  (config["qdrant_filter"].depends_on = {"query_interpretation", "query_expansion"}
     /\ ~Populated(config, "query_interpretation")) =>
    /\ \A j \in StartsOf("qdrant_filter") :
         /\ "query_expansion" \in execLog[j].executed
         /\ \E i \in StartsOf("query_expansion") :
              execLog[j].iteration = execLog[i].iteration + 1
    /\ \A i \in StartsOf("query_expansion") :
         (pc = "for" /\ iterations = execLog[i].iteration + 1
            /\ StartsOf("qdrant_filter") = {}) =>
           \E k \in 1..Len(ready) : ready[k].name = "qdrant_filter"
    /\ pc = "returned" => "qdrant_filter" \in executed

\* qdrant_filter was started in the second iteration, right after
\* query_expansion had run in the first
C22_Witness ==
  /\ StartsOf("qdrant_filter") # {}
  /\ \A j \in StartsOf("qdrant_filter") :
       execLog[j].iteration = 2 /\ execLog[j].executed = {"query_expansion"}
  /\ "query_interpretation" \notin PlanNames(operations)
  /\ pc = "returned"

(***************************************************************************)
(* C23                                                                     *)
(***************************************************************************)
\* C23: when a streaming run has ended, by returning or by raising, timings
\* has an entry for an operator exactly when an operator_end event was
\* emitted for it; an operator with an error event, and an operator that was
\* never started, has no entry
C23_TimingsIffOperatorEnd ==
  (Ended /\ Streaming) =>
    \A o \in SlotNames :
      /\ o \in DOMAIN context.timings <=> At(emitted, "operator_end", o) # {}
      /\ At(emitted, "error", o) # {} => o \notin DOMAIN context.timings
      /\ At(emitted, "operator_start", o) = {} => o \notin DOMAIN context.timings
      /\ o \in DOMAIN context.timings =>
           \A i \in At(emitted, "operator_end", o) :
             emitted[i].ms = context.timings[o]

\* a streaming run has ended in which one operator reached operator_end and
\* the next one failed
C23_Witness ==
  /\ Ended /\ Streaming
  /\ \E o \in SlotNames :
       At(emitted, "error", o) # {} /\ o \notin DOMAIN context.timings
  /\ \E o \in SlotNames :
       At(emitted, "operator_end", o) # {} /\ o \in DOMAIN context.timings

(***************************************************************************)
(* C24                                                                     *)
(***************************************************************************)
\* C24: errors gets its entries in the except clause and nowhere else: the
\* entry names the operator whose execute has just raised and what it raised;
\* as the first failure ends the pipeline errors never holds two entries; in
\* streaming mode the error event carries the operation and the message of
\* the entry, and there is no error event without an entry
C24_OneEntryPerFailure ==
  /\ [][IF pc = "except"
          THEN context'.errors =
                 Append(context.errors, [operation |-> op.name, error |-> pending])
          ELSE context'.errors = context.errors]_vars
  /\ [](Len(context.errors) <= 1)
  /\ [](pc = "except" => context.errors = <<>> /\ pending \in ErrorChoices)
  /\ []((pc # "except" /\ context.errors # <<>>) =>
          /\ context.errors[1].operation = op.name
          /\ op.name \notin executed
          /\ \E i \in StartsOf(op.name) : i = Len(execLog)
          /\ Streaming =>
               /\ Cardinality(OfType(emitted, "error")) = 1
               /\ \A k \in OfType(emitted, "error") :
                    /\ emitted[k].operation = context.errors[1].operation
                    /\ emitted[k].message = context.errors[1].error)
  /\ [](context.errors = <<>> => OfType(emitted, "error") = {})

\* the second operator of a streaming run has failed: errors holds its entry
\* and the error event was emitted
C24_Witness ==
  /\ Streaming /\ Len(context.errors) = 1
  /\ Len(execLog) = 2
  /\ context.errors[1].operation = execLog[2].name
  /\ OfType(emitted, "error") # {}
  /\ executed # {}

(***************************************************************************)
(* C25                                                                     *)
(***************************************************************************)
\* C25: finalization leaves a final_results key that is in the context as it
\* is, whatever its value; when the key is absent final_results becomes the
\* value of raw_results, and the empty list when that key is absent too;
\* raw_results, timings, errors and the query are not changed
C25_FinalizationFrame ==
  [][pc = "finalize" =>
       /\ context.final_results # Absent =>
            context'.final_results = context.final_results
       /\ (context.final_results = Absent /\ context.raw_results # Absent) =>
            context'.final_results = context.raw_results
       /\ (context.final_results = Absent /\ context.raw_results = Absent) =>
            context'.final_results = List(<<>>)
       /\ context'.raw_results = context.raw_results
       /\ context'.timings = context.timings
       /\ context'.errors = context.errors
       /\ context'.query = context.query]_vars

\* finalization has run on a context in which reranking had stored a
\* final_results that differs from raw_results, and has kept it
C25_Witness ==
  /\ pc = "summary"
  /\ context.execution_summary.present
  /\ context.raw_results = List(<<1, 2>>)
  /\ \E w \in wrote :
       /\ w.op = "reranking" /\ w.key = "final_results"
       /\ w.value # context.raw_results
       /\ context.final_results = w.value

(***************************************************************************)
(* Plans with dependency cycles: the required operators alone, and with    *)
(* an operator before and an operator after them.                          *)
(***************************************************************************)
CycleInit ==
  EntryState({RequiredSlots, RequiredSlots \cup {"query_expansion", "reranking"}},
             {CyclicDeps, SelfDeps, DeclaredDeps, ReverseDeps}, RequestIdChoices)

CycleSpec == CycleInit /\ [][FullNext]_vars

(***************************************************************************)
(* C26                                                                     *)
(***************************************************************************)
\* the dependencies of the operator named n that are in the plan
InPlanDeps(ops, n) ==
  UNION {ops[i].depends_on : i \in {j \in 1..Len(ops) : ops[j].name = n}}
    \cap PlanNames(ops)

\* the names reached from S along in-plan dependencies, S included
RECURSIVE DepsClosure(_, _)
DepsClosure(ops, S) ==
  LET T == S \cup UNION {InPlanDeps(ops, n) : n \in S}
  IN IF T = S THEN S ELSE DepsClosure(ops, T)

\* what n depends on, directly or transitively
DependsOn(ops, n) == DepsClosure(ops, InPlanDeps(ops, n))

InCycle(ops, n) == n \in DependsOn(ops, n)

\* n is in a cycle or depends on an operator that is
ReachesCycle(ops, n) == \E c \in DependsOn(ops, n) : InCycle(ops, c)

\* C26: when execute returns normally, either every operator of the plan has
\* executed or no unexecuted operator has all of its in-plan dependencies
\* executed, and the executed operators are exactly those that do not depend,
\* directly or transitively through in-plan dependencies, on an operator of
\* a dependency cycle
C26_MaximalProgress ==
  (Ended /\ pending = None) =>
    /\ \/ executed = PlanNames(operations)
       \/ \A n \in PlanNames(operations) \ executed :
            ~(InPlanDeps(operations, n) \subseteq executed)
    /\ executed = {n \in PlanNames(operations) : ~ReachesCycle(operations, n)}
    /\ executed = {execLog[i].name : i \in 1..Len(execLog)}

\* execute has returned with an operator executed, two operators caught in a
\* cycle and one that is in no cycle but waits for one of them
C26_Witness ==
  /\ Ended /\ pending = None
  /\ executed # {}
  /\ \E n \in PlanNames(operations) \ executed : InCycle(operations, n)
  /\ \E n \in PlanNames(operations) \ executed :
       ~InCycle(operations, n) /\ ReachesCycle(operations, n)

(***************************************************************************)
(* C27                                                                     *)
(***************************************************************************)
\* the operators of slots a and b of the config depend on each other
DependOnEachOther(a, b) ==
  /\ a # b
  /\ config[a] # NoneOp /\ config[b] # NoneOp
  /\ b \in config[a].depends_on
  /\ a \in config[b].depends_on

\* C27: for a plan whose operators a and b depend on each other, neither is
\* ever started and neither gets an error event or an entry in errors; the
\* run raises only when the caller cancels it or another operator fails, and
\* otherwise it returns: errors is empty, no error event is emitted, results,
\* summary and done are emitted in streaming mode, final_results is the empty
\* list when no operator stored results, and operations_executed is smaller
\* than the plan size, 0 when the plan is a and b alone
C27_CycleReturnsNormally ==
  \A a, b \in SlotNames :
    DependOnEachOther(a, b) =>
      /\ StartsOf(a) = {} /\ StartsOf(b) = {}
      /\ {a, b} \cap executed = {}
      /\ \A i \in 1..Len(emitted) : emitted[i].op \notin {a, b}
      /\ \A i \in 1..Len(context.errors) :
           context.errors[i].operation \notin {a, b}
      /\ (Ended /\ pending # None) =>
           \/ cancelled
           \/ /\ pending \in ErrorChoices
              /\ Len(context.errors) = 1
              /\ context.errors[1].operation \in PlanNames(operations) \ {a, b}
      /\ (Ended /\ pending = None) =>
           /\ pc = "returned"
           /\ context.errors = <<>>
           /\ OfType(emitted, "error") = {}
           /\ Len(warnings) = 1
           /\ {a, b} \subseteq {warnings[1][i].name : i \in 1..Len(warnings[1])}
           /\ Streaming =>
                /\ Cardinality(OfType(emitted, "results")) = 1
                /\ Cardinality(OfType(emitted, "summary")) = 1
                /\ Cardinality(OfType(emitted, "done")) = 1
           /\ wrote = {} => context.final_results = List(<<>>)
           /\ context.execution_summary.present
           /\ context.execution_summary.operations_executed < Len(operations)
           /\ context.execution_summary.operations_executed = Cardinality(executed)
           /\ PlanNames(operations) = {a, b} =>
                context.execution_summary.operations_executed = 0

\* a streaming run over a plan of two operators that depend on each other
\* has returned
C27_Witness ==
  /\ pc = "returned" /\ Streaming
  /\ \E a, b \in SlotNames :
       DependOnEachOther(a, b) /\ PlanNames(operations) = {a, b}
  /\ context.execution_summary.operations_executed = 0
  /\ context.final_results = List(<<>>)
  /\ OfType(emitted, "done") # {}

(***************************************************************************)
(* _find_ready_operations called twice with the same arguments.            *)
(***************************************************************************)
\* a second ready = self._find_ready_operations(operations, executed)
FindReadyAgain ==
  /\ pc = "ready"
  /\ ready' = _find_ready_operations(operations, executed)
  /\ pc' = "ready_again"
  /\ UNCHANGED <<config, ctx, request_id, wrote, operations, context, executed, op,
                 pending, cancelled, inflight, opEmits, execLog, iterations,
                 warnings, analyticsLog, sink>>
  /\ UNCHANGED emitterVars

ReadyTwiceNext == FindReady \/ FindReadyAgain

ReadyTwiceSpec == ReadyInit /\ [][ReadyTwiceNext]_vars

(***************************************************************************)
(* C28                                                                     *)
(***************************************************************************)
\* r is made of elements of ops taken at increasing positions
InPlanOrder(r, ops) ==
  \E f \in [1..Len(r) -> 1..Len(ops)] :
    /\ \A k \in 1..Len(r) : r[k] = ops[f[k]]
    /\ \A k, l \in 1..Len(r) : k < l => f[k] < f[l]

C29_AtMostOnce ==
  /\ [](\A i, j \in 1..Len(execLog) :
          i # j => execLog[i].name # execLog[j].name)
  /\ [](\A i \in 1..Len(execLog) : execLog[i].name \notin execLog[i].executed)
  /\ [](\A n \in executed : Cardinality(StartsOf(n)) = 1)
  /\ [][execLog' # execLog =>
          /\ context.errors = <<>>
          /\ pending = None
          /\ Len(execLog') = Len(execLog) + 1
          /\ execLog'[Len(execLog')].name \notin executed]_vars
  /\ [](context.errors # <<>> =>
          /\ context.errors[1].operation = execLog[Len(execLog)].name
          /\ pc \in {"finally", "emit_done", "returned", "raised"})

\* a second scheduler iteration has started its operator, after the one of
\* the first iteration completed
C29_Witness ==
  /\ pc = "execute"
  /\ Len(execLog) = 2
  /\ execLog[2].iteration = 2 /\ execLog[1].iteration = 1
  /\ execLog[1].name \in executed

(***************************************************************************)
(* C30                                                                     *)
(***************************************************************************)
\* the operators that entered execute and neither completed nor failed
InProgress ==
  ({execLog[i].name : i \in 1..Len(execLog)} \ executed)
    \ {context.errors[i].operation : i \in 1..Len(context.errors)}

OutcomeSpec == Init /\ [][FullNext]_vars

(***************************************************************************)
(* The policy of execute with the emitter taken away: what a run does and  *)
(* how it ends, as a function of the plan and of what each operator does.  *)
(***************************************************************************)
\* the value the operator n stored under key, Absent when it stored none
Wrote(n, key) ==
  IF \E w \in wrote : w.op = n /\ w.key = key
    THEN (CHOOSE w \in wrote : w.op = n /\ w.key = key).value
    ELSE Absent

\* what each operator did in this run: it raised, or it returned having
\* stored what it stored
OperatorBehaviour ==
  [n \in SlotNames |->
     IF context.errors # <<>> /\ context.errors[1].operation = n
       THEN [raises |-> TRUE, error |-> context.errors[1].error,
             raw |-> Absent, fin |-> Absent]
       ELSE [raises |-> FALSE, error |-> None,
             raw |-> Wrote(n, "raw_results"), fin |-> Wrote(n, "final_results")]]

RECURSIVE PolicyLoop(_, _, _)
RECURSIVE PolicyBatch(_, _, _, _)
\* the while loop
PolicyLoop(ops, beh, st) ==
  IF ~LoopContinues(ops, st.done)
    THEN [st EXCEPT !.outcome = "returned", !.cx = _finalize_context(@)]
    ELSE IF \E i \in 1..Len(ops) : ops[i] = NoneOp
      THEN [st EXCEPT !.outcome = "raised", !.error = "AttributeError"]
      ELSE LET r == _find_ready_operations(ops, st.done)
           IN IF r = <<>>
                THEN [st EXCEPT !.outcome = "returned", !.cx = _finalize_context(@)]
                ELSE PolicyBatch(ops, beh, st, r)

\* the for loop over one ready list
PolicyBatch(ops, beh, st, r) ==
  IF r = <<>> THEN PolicyLoop(ops, beh, st)
  ELSE LET o == Head(r)
           b == beh[o.name]
           started == [st EXCEPT !.log = Append(@, o.name)]
       IN IF b.raises
            THEN [started EXCEPT
                    !.outcome = "raised", !.error = b.error,
                    !.cx.errors = Append(@, [operation |-> o.name, error |-> b.error])]
            ELSE PolicyBatch(ops, beh,
                             [started EXCEPT
                                !.done = @ \cup {o.name},
                                !.cx = Completed(@, o.name, b.raw, b.fin)],
                             Tail(r))

\* the run the policy makes of a config and the operators' behaviour
Policy(c, beh) ==
  PolicyLoop(_extract_operations_from_config(c), beh,
             [cx |-> _initialize_context(c, None), done |-> {}, log |-> <<>>,
              outcome |-> "running", error |-> None])

\* the names of the operators started, in the order they were started
StartedInOrder == [i \in 1..Len(execLog) |-> execLog[i].name]

\* the run was not cancelled by the caller and has ended
EndedUncancelled == Ended /\ ~cancelled

(***************************************************************************)
(* C31                                                                     *)
(***************************************************************************)
\* C31: a streaming run, whichever of its publishes fail, starts the
\* operators the policy starts for its config and its operators' behaviour,
\* in the same order, and ends as the policy ends: it returns the same
\* final_results, timings keys, errors and execution_summary, or raises the
\* same failure; the policy knows nothing of the publisher, so runs that
\* differ only in the publishes that fail end alike
C31_OutcomeIgnoresPublishFailures ==
  (EndedUncancelled /\ Streaming) =>
    LET run == Policy(config, OperatorBehaviour)
    IN /\ StartedInOrder = run.log
       /\ pc = "returned" <=> run.outcome = "returned"
       /\ pending = run.error
       /\ context.final_results = run.cx.final_results
       /\ DOMAIN context.timings = DOMAIN run.cx.timings
       /\ context.errors = run.cx.errors
       /\ context.execution_summary = run.cx.execution_summary

\* a streaming run whose publisher failed has returned results
C31_Witness ==
  /\ pc = "returned" /\ Streaming
  /\ pubFailures > 0
  /\ Len(channel) < Len(emitted)
  /\ Truthy(context.final_results)
  /\ Len(execLog) >= 2

(***************************************************************************)
(* C32                                                                     *)
(***************************************************************************)
\* C32: with and without a request id a run follows the one policy: it
\* starts the same operators in the same order, fails on the same operator
\* with the same error or returns; its context is the policy's context in
\* every key but request_id and streaming_required, which are the request
\* id and whether there is one
C32_SamePolicyWithAndWithoutRequestId ==
  EndedUncancelled =>
    LET run == Policy(config, OperatorBehaviour)
    IN /\ StartedInOrder = run.log
       /\ pc = "returned" <=> run.outcome = "returned"
       /\ pending = run.error
       /\ [context EXCEPT !.request_id = None, !.streaming_required = FALSE]
            = run.cx
       /\ context.request_id = request_id
       /\ context.streaming_required = (request_id # None)

\* a run without a request id has raised the failure of its second operator
C32_Witness ==
  /\ pc = "raised" /\ ~Streaming /\ ~cancelled
  /\ Len(execLog) = 2
  /\ pending \in ErrorChoices
  /\ context.errors # <<>> /\ context.errors[1].operation = execLog[2].name
  /\ ~context.streaming_required

(***************************************************************************)
(* C33                                                                     *)
(***************************************************************************)
\* C33: when execute returns, operations_executed is the number of keys of
\* timings, which is the number of operators that completed, errors_count is
\* the length of errors, and errors is empty and errors_count 0: a run in
\* which an operator failed does not return
C33_SummaryCounts ==
  /\ pc = "returned" =>
       /\ context.execution_summary.present
       /\ context.execution_summary.operations_executed =
            Cardinality(DOMAIN context.timings)
       /\ context.execution_summary.operations_executed = Cardinality(executed)
       /\ context.execution_summary.operations_executed = Len(execLog)
       /\ context.execution_summary.errors_count = Len(context.errors)
       /\ context.execution_summary.errors_count = 0
       /\ context.errors = <<>>
  /\ context.errors # <<>> => pc # "returned"
  /\ (Ended /\ context.errors # <<>>) => pc = "raised" /\ pending # None

\* a run has returned with two operators completed of a plan of three
C33_Witness ==
  /\ pc = "returned"
  /\ context.execution_summary.operations_executed = 2
  /\ Len(operations) = 3
  /\ context.execution_summary.errors_count = 0

(***************************************************************************)
(* Two execute calls on one SearchExecutor, each with its own request id,  *)
(* interleaved at their suspension points.  The executor has no fields:    *)
(* plan, context, counters and emit closure are locals of the call, so the *)
(* variables hold one value per call.                                      *)
(***************************************************************************)
Calls == {"r1", "r2"}

\* the config of each call
CallConfig ==
  [c \in Calls |->
     IF c = "r1"
       THEN MakeConfig(<<"h", "i">>, RequiredSlots \cup {"query_expansion"}, DeclaredDeps)
       ELSE MakeConfig(<<"h", "i">>, RequiredSlots \cup {"reranking"}, DeclaredDeps)]

TwoCallsInit ==
  /\ config = CallConfig
  /\ ctx \in CtxChoices
  /\ request_id = None
  /\ pc = [c \in Calls |-> "entry"]
  /\ operations = [c \in Calls |-> <<>>]
  /\ context = [c \in Calls |-> _initialize_context(CallConfig[c], None)]
  /\ executed = [c \in Calls |-> {}]
  /\ ready = [c \in Calls |-> <<>>]
  /\ op = [c \in Calls |-> NoneOp]
  /\ pending = [c \in Calls |-> None]
  /\ cancelled = FALSE
  /\ global_sequence = [c \in Calls |-> 0]
  /\ op_sequences = [c \in Calls |-> [s \in SlotNames |-> 0]]
  /\ inflight = {}
  /\ channel = [c \in Calls |-> <<>>]
  /\ emitted = [c \in Calls |-> <<>>]
  /\ emitCalls = 0
  /\ pubFailures = 0
  /\ opEmits = 0
  /\ execLog = [c \in Calls |-> <<>>]
  /\ wrote = {}
  /\ iterations = 0
  /\ warnings = <<>>
  /\ analyticsLog = <<>>
  /\ sink = <<>>

\* what no step of a call touches in this specification
CallFrame ==
  UNCHANGED <<config, ctx, request_id, cancelled, inflight, emitCalls, pubFailures,
              opEmits, wrote, iterations, warnings, analyticsLog, sink>>

\* the counters step with the counters kept on the executor instance, one
\* set for all calls
CallNumberOnInstance(c, op_name) ==
  /\ global_sequence' = [d \in Calls |-> global_sequence[d] + 1]
  /\ op_sequences' =
       IF op_name = None THEN op_sequences
       ELSE [d \in Calls |-> [op_sequences[d] EXCEPT ![op_name] = @ + 1]]

\* the counters step of the emit closure of call c
CallNumber(c, op_name) ==
  /\ global_sequence' = [global_sequence EXCEPT ![c] = @ + 1]
  /\ op_sequences' =
       IF op_name = None THEN op_sequences
       ELSE [op_sequences EXCEPT ![c][op_name] = @ + 1]

\* the emit closure of call c: the payload goes to the channel search:<c>
CallEmit(c, event_type, data, op_name) ==
  /\ CallNumber(c, op_name)
  /\ LET payload ==
           Payload(event_type, global_sequence'[c], op_name,
                   IF op_name = None THEN 0 ELSE op_sequences'[c][op_name], data)
     IN /\ emitted' = [emitted EXCEPT ![c] = Append(@, payload)]
        /\ channel' = [channel EXCEPT ![c] = Append(@, payload)]

CallEnter ==
  \E c \in Calls :
    /\ pc[c] = "entry"
    /\ operations' =
         [operations EXCEPT ![c] = _extract_operations_from_config(config[c])]
    /\ context' = [context EXCEPT ![c] = _initialize_context(config[c], c)]
    /\ CallEmit(c, "start", [request_id |-> c, query |-> config[c].query], None)
    /\ pc' = [pc EXCEPT ![c] = "loop"]
    /\ UNCHANGED <<executed, ready, op, pending, execLog>>
    /\ CallFrame

CallLoopCheck ==
  \E c \in Calls :
    /\ pc[c] = "loop"
    /\ LET r == _find_ready_operations(operations[c], executed[c])
       IN IF ~LoopContinues(operations[c], executed[c]) \/ r = <<>>
            THEN /\ pc' = [pc EXCEPT ![c] = "finalize"]
                 /\ UNCHANGED ready
            ELSE /\ ready' = [ready EXCEPT ![c] = r]
                 /\ pc' = [pc EXCEPT ![c] = "for"]
    /\ UNCHANGED <<operations, context, executed, op, pending, execLog,
                   global_sequence, op_sequences, emitted, channel>>
    /\ CallFrame

CallForNext ==
  \E c \in Calls :
    /\ pc[c] = "for"
    /\ op' = [op EXCEPT ![c] = Head(ready[c])]
    /\ ready' = [ready EXCEPT ![c] = Tail(@)]
    /\ CallEmit(c, "operator_start", [name |-> Head(ready[c]).name], Head(ready[c]).name)
    /\ execLog' = [execLog EXCEPT ![c] = Append(@, Head(ready[c]).name)]
    /\ pc' = [pc EXCEPT ![c] = "execute"]
    /\ UNCHANGED <<operations, context, executed, pending>>
    /\ CallFrame

CallOpReturn ==
  \E c \in Calls :
    /\ pc[c] = "execute"
    /\ context' = [context EXCEPT ![c] = Completed(@, op[c].name, Absent, Absent)]
    /\ executed' = [executed EXCEPT ![c] = @ \cup {op[c].name}]
    /\ CallEmit(c, "operator_end",
                [name |-> op[c].name, ms |-> ElapsedMs(op[c].name)], op[c].name)
    /\ pc' = [pc EXCEPT ![c] = IF ready[c] = <<>> THEN "loop" ELSE "for"]
    /\ UNCHANGED <<operations, ready, op, pending, execLog>>
    /\ CallFrame

CallOpRaise ==
  \E c \in Calls, e \in ErrorChoices :
    /\ pc[c] = "execute"
    /\ context' =
         [context EXCEPT
            ![c].errors = Append(@, [operation |-> op[c].name, error |-> e])]
    /\ pending' = [pending EXCEPT ![c] = e]
    /\ CallEmit(c, "error", [operation |-> op[c].name, message |-> e], op[c].name)
    /\ pc' = [pc EXCEPT ![c] = "finally"]
    /\ UNCHANGED <<operations, executed, ready, op, execLog>>
    /\ CallFrame

CallFinalize ==
  \E c \in Calls :
    /\ pc[c] = "finalize"
    /\ context' = [context EXCEPT ![c] = _finalize_context(@)]
    /\ CallEmit(c, "results",
                [results |-> GetOrEmpty(_finalize_context(context[c]).final_results)],
                None)
    /\ pc' = [pc EXCEPT ![c] = "summary"]
    /\ UNCHANGED <<operations, executed, ready, op, pending, execLog>>
    /\ CallFrame

CallSummary ==
  \E c \in Calls :
    /\ pc[c] = "summary"
    /\ CallEmit(c, "summary",
                [timings |-> context[c].timings, errors |-> context[c].errors,
                 total_time_ms |-> SumValues(context[c].timings)], None)
    /\ pc' = [pc EXCEPT ![c] = "finally"]
    /\ UNCHANGED <<operations, context, executed, ready, op, pending, execLog>>
    /\ CallFrame

CallDone ==
  \E c \in Calls :
    /\ pc[c] = "finally"
    /\ CallEmit(c, "done", [request_id |-> c], None)
    /\ pc' = [pc EXCEPT ![c] = IF pending[c] = None THEN "returned" ELSE "raised"]
    /\ UNCHANGED <<operations, context, executed, ready, op, pending, execLog>>
    /\ CallFrame

TwoCallsNext ==
  \/ CallEnter
  \/ CallLoopCheck
  \/ CallForNext
  \/ CallOpReturn
  \/ CallOpRaise
  \/ CallFinalize
  \/ CallSummary
  \/ CallDone

TwoCallsSpec == TwoCallsInit /\ [][TwoCallsNext]_vars

(***************************************************************************)
(* C34                                                                     *)
(***************************************************************************)
\* the op_seq values of the events of operator o in a log, in log order
OpSeqsOf(log, o) ==
  LET E == SelectSeq(log, LAMBDA e : e.op = o)
  IN [k \in 1..Len(E) |-> E[k].op_seq]

AnalyticsCtxChoices ==
  {[user |-> "u1", organization |-> [id |-> "org1", name |-> "acme"]],
   [user |-> None, organization |-> [id |-> "org1", name |-> "acme"]]}

AnalyticsInit ==
  /\ \E q \in QueryChoices, deps \in {NoDeps, DeclaredDeps} :
       config = MakeConfig(q, RequiredSlots \cup {"reranking"}, deps)
  /\ ctx \in AnalyticsCtxChoices
  /\ request_id \in RequestIdChoices
  /\ pc = "entry"
  /\ operations = <<>>
  /\ context = _initialize_context(config, None)
  /\ executed = {}
  /\ ready = <<>>
  /\ op = NoneOp
  /\ pending = None
  /\ cancelled = FALSE
  /\ global_sequence = 0
  /\ op_sequences = [s \in SlotNames |-> 0]
  /\ inflight = {}
  /\ channel = <<>>
  /\ emitted = <<>>
  /\ emitCalls = 0
  /\ pubFailures = 0
  /\ opEmits = 0
  /\ execLog = <<>>
  /\ wrote = {}
  /\ iterations = 0
  /\ warnings = <<>>
  /\ analyticsLog = <<>>
  /\ sink = <<>>

AnalyticsSpec == AnalyticsInit /\ [][FullNext]_vars

(***************************************************************************)
(* C35                                                                     *)
(***************************************************************************)
\* C35: the search_query event carries search_type streaming exactly when a
\* request id was given and regular otherwise, the collection_slug of the
\* config, results_count equal to the number of final_results of a run that
\* returned results, and as distinct id the user id when the request
\* context has a user and api_key_<org_id> otherwise
C35_AnalyticsProperties ==
  \A i \in 1..Len(analyticsLog) :
    LET ev == analyticsLog[i]
    IN /\ ev.properties.search_type = (IF Streaming THEN "streaming" ELSE "regular")
       /\ ev.properties.collection_slug = config.collection_slug
       /\ (pending = None /\ Truthy(context.final_results)) =>
            /\ "results_count" \in DOMAIN ev.properties
            /\ ev.properties.results_count = Len(context.final_results.items)
       /\ ev.distinct_id =
            (IF ctx.user # None THEN ctx.user
             ELSE <<"api_key_", ctx.organization.id>>)

(***************************************************************************)
(* C36                                                                     *)
(***************************************************************************)
\* C36: the channel carries the events of concurrently emitting tasks in
\* increasing seq order
C36_ChannelInSeqOrder ==
  \A i, j \in 1..Len(channel) : i < j => channel[i].seq < channel[j].seq

\* what the emitter does keep: the events are handed to the publisher in
\* increasing seq order, each in the step that numbers it, and each reaches
\* the channel at most once; the publishes, awaited outside emit_lock,
\* complete in any order
HandedOverInSeqOrder ==
  /\ [][emitted' # emitted =>
          /\ Len(emitted') = Len(emitted) + 1
          /\ emitted'[Len(emitted')].seq = Len(emitted')
          /\ \A i \in 1..Len(emitted) : emitted'[i] = emitted[i]
          /\ inflight' = inflight \cup {emitted'[Len(emitted')]}
          /\ emitted'[Len(emitted')] \notin inflight
          /\ channel' = channel]_vars
  /\ [][channel' # channel =>
          \E p \in inflight :
            /\ channel' = Append(channel, p)
            /\ inflight' = inflight \ {p}]_vars
  /\ [](\A i, j \in 1..Len(channel) : channel[i].seq = channel[j].seq => i = j)
  /\ [](Events(channel) \cap inflight = {})

\* the event numbered 2 is on the channel before the event numbered 1
C36_Witness ==
  /\ Len(channel) = 2
  /\ channel[1].seq = 2 /\ channel[2].seq = 1
  /\ channel[1].op # channel[2].op

(***************************************************************************)
(* C37                                                                     *)
(***************************************************************************)
\* C37: whatever keys the data of an emit call has, the payload carries the
\* seq the emitter assigned, which is its place in the numbering, the op it
\* was emitted for with an op_seq within that operator's counter, and one of
\* the event types; no two payloads on the channel carry the same seq
C37_FrameFieldsNotReplaced ==
  Streaming =>
    /\ \A i \in 1..Len(emitted) :
         /\ emitted[i].seq = i
         /\ emitted[i].op \in SlotNames =>
              emitted[i].op_seq \in 1..op_sequences[emitted[i].op]
    /\ \A i, j \in 1..Len(channel) : channel[i].seq = channel[j].seq => i = j

\* the channel carries two payloads with seq 1: the start event and an event
\* of an operator whose data has a seq key
C37_Witness ==
  /\ Streaming
  /\ \E i, j \in 1..Len(channel) :
       /\ i < j
       /\ channel[i].type = "start" /\ channel[i].seq = 1
       /\ channel[j].type = "progress" /\ channel[j].seq = 1
       /\ global_sequence >= 3

(***************************************************************************)
(* C38                                                                     *)
(***************************************************************************)
\* the place in execLog of the first operator started in the iteration of
\* the operator at place i
FirstOfBatch(i) ==
  CHOOSE j \in 1..i :
    /\ execLog[j].iteration = execLog[i].iteration
    /\ \A k \in 1..(j - 1) : execLog[k].iteration # execLog[i].iteration

\* the ready list of the iteration of the operator at place i: computed from
\* what had executed when the iteration began
BatchAt(i) == _find_ready_operations(operations, execLog[FirstOfBatch(i)].executed)

\* the place of a name in the plan
PlaceInPlan(n) == CHOOSE k \in 1..Len(operations) : operations[k].name = n

\* C38: the operators started in one scheduler iteration are the ready list
\* computed when the iteration began, taken in plan order; nothing that
\* became ready during the batch is started in it, and the next iteration
\* begins only when the whole list has run
C38_BatchesInPlanOrder ==
  \A i \in 1..Len(execLog) :
    LET first == FirstOfBatch(i)
        batch == BatchAt(i)
        m == i - first + 1
    IN /\ m <= Len(batch)
       /\ execLog[i].name = batch[m].name
       /\ execLog[i].executed =
            execLog[first].executed \cup {batch[n].name : n \in 1..(m - 1)}
       /\ \A k \in first..i : execLog[k].iteration = execLog[i].iteration
       /\ i < Len(execLog) =>
            \/ execLog[i + 1].iteration = execLog[i].iteration
            \/ /\ m = Len(batch)
               /\ execLog[i + 1].iteration = execLog[i].iteration + 1
               /\ {batch[n].name : n \in 1..Len(batch)} \subseteq execLog[i + 1].executed
       /\ \A n, k \in 1..Len(batch) :
            n < k => PlaceInPlan(batch[n].name) < PlaceInPlan(batch[k].name)

\* an operator placed later in the plan has run in an earlier iteration than
\* an operator placed before it, which was waiting when that iteration began;
\* and an operator that became ready in the middle of a batch was started
\* after the rest of the batch, in the next iteration
C38_Witness ==
  /\ pc = "returned"
  /\ \E i, j \in 1..Len(execLog) :
       /\ execLog[i].iteration < execLog[j].iteration
       /\ PlaceInPlan(execLog[i].name) > PlaceInPlan(execLog[j].name)
       /\ ~(config[execLog[j].name].depends_on
              \subseteq execLog[FirstOfBatch(i)].executed)
  /\ \E i, j \in 1..Len(execLog) :
       /\ execLog[j].iteration = execLog[i].iteration + 1
       /\ execLog[i].name \in config[execLog[j].name].depends_on
       /\ config[execLog[j].name].depends_on
            \subseteq execLog[i].executed \cup {execLog[i].name}
       /\ \E k \in (i + 1)..(j - 1) : execLog[k].iteration = execLog[i].iteration

(***************************************************************************)
(* C39                                                                     *)
(***************************************************************************)
\* C39: the analytics event is recorded in the finally block: no operator is
\* inside its execute step then and none is started afterwards, the done
\* event has not been emitted and is not emitted in that step; after done
\* nothing more is emitted; results_count is among the properties exactly
\* when final_results is a non-empty list at that moment, and is its length
C39_AnalyticsBeforeDone ==
  /\ [][analyticsLog' # analyticsLog =>
          /\ pc = "finally"
          /\ analyticsLog = <<>>
          /\ OfType(emitted, "done") = {}
          /\ emitted' = emitted
          /\ execLog' = execLog
          /\ LET props == analyticsLog'[1].properties
             IN /\ "results_count" \in DOMAIN props <=> Truthy(context.final_results)
                /\ Truthy(context.final_results) =>
                     props.results_count = Len(context.final_results.items)]_vars
  /\ [][analyticsLog # <<>> => execLog' = execLog /\ executed' = executed]_vars
  /\ [][OfType(emitted, "done") # {} => emitted' = emitted /\ channel' = channel]_vars
  /\ [](OfType(emitted, "done") # {} =>
          /\ Len(analyticsLog) = 1
          /\ emitted[Len(emitted)].type = "done")
  /\ [](analyticsLog # <<>> => pc \in {"emit_done", "returned", "raised"})

\* a streaming run has raised the failure of its operator: the analytics
\* event, without results_count, was recorded and done emitted after it
C39_Witness ==
  /\ pc = "raised" /\ Streaming /\ pending \in ErrorChoices
  /\ Len(analyticsLog) = 1
  /\ "results_count" \notin DOMAIN analyticsLog[1].properties
  /\ emitted[Len(emitted)].type = "done"
  /\ context.final_results = Absent

====
